---------------------------- MODULE Spec2Model ----------------------------
(***************************************************************************)
(* A model of the ARVIDA C++ preprocessor core (arvidapp):                 *)
(*   - the marker-attribute annotation decoder get_annotations_from_cursor *)
(*   - the call-argument grouping of AnnotatedItem.from_cursor             *)
(*   - the type-spelling parser analyze_type_spelling                      *)
(*   - the path compiler process_path_annotation                           *)
(*   - Environment.build_index and TemplateProcessor.process_environment   *)
(*   - Environment.from_cursor over nested namespaces                      *)
(*   - the name resolution get_full_name                                   *)
(*   - the qualifier stripping and the names of CursorWrapper              *)
(* Python strings are TLA+ strings; the string functions the code uses     *)
(* (startswith, find, rfind, split, replace, json.dumps) are defined on    *)
(* characters.  Python's None is the empty sequence <<>> and a present     *)
(* value x is <<x>>.                                                       *)
(***************************************************************************)
EXTENDS Integers, Sequences, FiniteSets, TLC

VARIABLES
    \* get_annotations_from_cursor
    children,              \* node.get_children(), in attachment order
    visit_pos,             \* number of children the reversed loop has visited
    result,                \* defaultdict(list): key -> list of entries
    current_param_name,    \* None or the open parameter's name
    current_param_value,   \* None or the open parameter's values so far
    begun,                 \* history: visiting positions that opened a parameter
    dec_pc,                \* "idle" | "loop" | "done"
    \* AnnotatedItem.from_cursor
    params,                \* collect_annotation_params(cursor.get_arguments())
    param_pos,             \* number of params[1:] the loop has consumed
    item,                  \* None or params[0]
    first_param,
    annotation_name,       \* None or a string
    annotation_params,
    annotations,           \* the Annotation objects emitted so far
    returned,              \* None or the AnnotatedItem returned
    call_pc,               \* "idle" | "start" | "loop" | "done"
    \* analyze_type_spelling and TypeSpellingInfo.__str__
    spelling,              \* the type spelling analysed
    analysed,              \* outcome of analyze_type_spelling(spelling)
    respelled,             \* str() of the tree returned
    reanalysed,            \* outcome of analyze_type_spelling(respelled)
    type_pc,               \* "idle" | "start" | "analysed" | "respelled" | "done"
    \* process_path_annotation
    path_annotation_list,  \* the annotation values under 'path'
    path_subst_list,       \* the meta-variable substitutions in force
    path_result,           \* None or (path, unquoted_path, pp_path)
    path_pc,               \* "idle" | "start" | "done"
    \* Environment.build_index and TemplateProcessor.process_environment
    namespaces,            \* enclosing namespaces whose from_cursor is running
    classes,               \* environment.classes: name, bases, members
    env_annotations,       \* environment.annotations: the AnnotatedItems
    hash_order,            \* the order in which a set of classes iterates
    global_annotations,    \* environment.global_annotations
    annotated_classes,     \* environment.annotated_classes (an OrderedSet)
    cls_annotations,       \* cls.annotations of every class
    member_annotations,    \* member.annotations of every member of a class
    annotated_base_classes,
    annotated_sub_classes,
    env_text,              \* environment.prolog, .epilog and .includes
    cls_attrs,             \* what process_environment sets on every class
    uid_visits,            \* history: calls of propagate_annotation, per start
    visitor_visits,        \* history: classes marked, per propagation start
    raised,                \* None or the message of the Exception raised
    runs,                  \* calls of process_environment so far
    env_pc,                \* "idle" | "parsed" | "indexed" | "processed"
    \* get_full_name
    cursor_chain,          \* the cursor and its semantic parents, innermost first
    name_cache,            \* None or the CacheEntry attribute full_name
    name_returned,         \* history: what each call returned
    name_pc,               \* "idle" | "ready"
    \* CursorWrapper
    wrapped_type,          \* a type and its pointee types, outermost first
    wrappers,              \* the CursorWrapper objects made so far
    wrap_log,              \* history: the calls made and what they returned
    wrap_pc                \* "idle" | "ready"

decVars == <<children, visit_pos, result, current_param_name,
             current_param_value, begun, dec_pc>>

callVars == <<params, param_pos, item, first_param, annotation_name,
              annotation_params, annotations, returned, call_pc>>

typeVars == <<spelling, analysed, respelled, reanalysed, type_pc>>

pathVars == <<path_annotation_list, path_subst_list, path_result, path_pc>>

envVars == <<namespaces, classes, env_annotations, hash_order, global_annotations,
             annotated_classes, cls_annotations, member_annotations,
             annotated_base_classes, annotated_sub_classes, env_text,
             cls_attrs, uid_visits, visitor_visits, raised, runs, env_pc>>

nameVars == <<cursor_chain, name_cache, name_returned, name_pc>>

wrapVars == <<wrapped_type, wrappers, wrap_log, wrap_pc>>

vars == <<decVars, callVars, typeVars, pathVars, envVars, nameVars,
          wrapVars>>

\* what each component leaves alone
notDecVars == <<callVars, typeVars, pathVars, envVars, nameVars, wrapVars>>
notCallVars == <<decVars, typeVars, pathVars, envVars, nameVars, wrapVars>>
notTypeVars == <<decVars, callVars, pathVars, envVars, nameVars, wrapVars>>
notPathVars == <<decVars, callVars, typeVars, envVars, nameVars, wrapVars>>
notEnvVars == <<decVars, callVars, typeVars, pathVars, nameVars, wrapVars>>
notNameVars == <<decVars, callVars, typeVars, pathVars, envVars, wrapVars>>
notWrapVars == <<decVars, callVars, typeVars, pathVars, envVars, nameVars>>

-----------------------------------------------------------------------------
(* Python values *)

None == <<>>
Some(x) == <<x>>
IsNone(o) == o = <<>>
The(o) == o[1]

(* Python string functions, on characters *)

CharAt(s, i) == SubSeq(s, i, i)

startswith(s, p) == Len(s) >= Len(p) /\ SubSeq(s, 1, Len(p)) = p

\* s[n:]
DropFirst(s, n) == SubSeq(s, n + 1, Len(s))

\* s.find(ch) for a single character, 0-based, -1 when absent
find(s, ch) ==
    LET hits == {i \in 1..Len(s) : CharAt(s, i) = ch}
    IN  IF hits = {} THEN -1
        ELSE (CHOOSE i \in hits : \A j \in hits : i <= j) - 1

\* s.rfind(ch) for a single character, 0-based, -1 when absent
rfind(s, ch) ==
    LET hits == {i \in 1..Len(s) : CharAt(s, i) = ch}
    IN  IF hits = {} THEN -1
        ELSE (CHOOSE i \in hits : \A j \in hits : i >= j) - 1

\* sub in s, for a substring
contains(s, sub) ==
    \E i \in 1..(Len(s) - Len(sub) + 1) : SubSeq(s, i, i + Len(sub) - 1) = sub

-----------------------------------------------------------------------------
(* Constants of the annotation micro-language *)

PARAM_BEGIN_PREFIX == "arvida-"
PARAM_END == "arvida-eop"
PARAM_VALUE_PREFIX == "arvida-param-"

-----------------------------------------------------------------------------
(* The state of a component that is not running *)

CallIdle ==
    /\ params = <<>>
    /\ param_pos = 0
    /\ item = None
    /\ first_param = TRUE
    /\ annotation_name = None
    /\ annotation_params = <<>>
    /\ annotations = <<>>
    /\ returned = None
    /\ call_pc = "idle"

NoOutcome == [status |-> "unset"]

TypeIdle ==
    /\ spelling = ""
    /\ analysed = NoOutcome
    /\ respelled = ""
    /\ reanalysed = NoOutcome
    /\ type_pc = "idle"

PathIdle ==
    /\ path_annotation_list = <<>>
    /\ path_subst_list = <<>>
    /\ path_result = None
    /\ path_pc = "idle"

EnvIdle ==
    /\ namespaces = 0
    /\ classes = <<>>
    /\ env_annotations = <<>>
    /\ hash_order = <<>>
    /\ global_annotations = <<>>
    /\ annotated_classes = <<>>
    /\ cls_annotations = <<>>
    /\ member_annotations = <<>>
    /\ annotated_base_classes = <<>>
    /\ annotated_sub_classes = <<>>
    /\ env_text = <<>>
    /\ cls_attrs = <<>>
    /\ uid_visits = <<>>
    /\ visitor_visits = <<>>
    /\ raised = None
    /\ runs = 0
    /\ env_pc = "idle"

NameIdle ==
    /\ cursor_chain = <<>>
    /\ name_cache = None
    /\ name_returned = <<>>
    /\ name_pc = "idle"

WrapIdle ==
    /\ wrapped_type = <<>>
    /\ wrappers = <<>>
    /\ wrap_log = <<>>
    /\ wrap_pc = "idle"

-----------------------------------------------------------------------------
(* get_annotations_from_cursor: the marker-attribute decoder *)

MaxChildren == 4

ANNOTATE_ATTR == "ANNOTATE_ATTR"
OTHER_KIND == "UNEXPOSED_ATTR"

Attr(d) == [kind |-> ANNOTATE_ATTR, displayname |-> d]

\* The children a declaration may carry: marker attributes, flag attributes
\* and one child of another kind.
ChildPool ==
    { Attr("arvida-X-1"), Attr("arvida-a-b-2"),
      Attr("arvida-param-1:a"), Attr("arvida-param-2:b"),
      Attr("arvida-param-3:c:d"),
      Attr("arvida-eop-1"),
      Attr("hidden"), Attr("k=v=w"),
      [kind |-> OTHER_KIND, displayname |-> "final"] }

ChildLists == UNION { [1..n -> ChildPool] : n \in 0..MaxChildren }

\* Entries of a result list: a committed tuple, the flag True, or a string.
TupleEntry(vals) == [t |-> "tuple", v |-> vals]
TrueEntry == [t |-> "True", v |-> <<>>]
StrEntry(s) == [t |-> "str", v |-> <<s>>]

EmptyDict == [k \in {} |-> <<>>]

\* result[key].append(entry) on a defaultdict(list)
DictAppend(d, key, entry) ==
    [k \in DOMAIN d \cup {key} |->
        IF k = key
        THEN (IF key \in DOMAIN d THEN Append(d[key], entry) ELSE <<entry>>)
        ELSE d[k]]

\* The child the reversed loop visits next.
CurrentChild == children[Len(children) - visit_pos]

\* name of a begin marker: the text after the prefix, cut at the last '-'
BeginNameMissingCut(d) == DropFirst(d, Len(PARAM_BEGIN_PREFIX))

BeginName(d) ==
    LET name == DropFirst(d, Len(PARAM_BEGIN_PREFIX))
        end_name_pos == rfind(name, "-")
    IN  IF end_name_pos # -1 THEN SubSeq(name, 1, end_name_pos) ELSE name

\* value of a value marker: the text after the prefix, from after the first ':'
MarkerValueKeepToken(d) == DropFirst(d, Len(PARAM_VALUE_PREFIX))

MarkerValue(d) ==
    LET value == DropFirst(d, Len(PARAM_VALUE_PREFIX))
        begin_value_pos == find(value, ":")
    IN  IF begin_value_pos # -1 THEN DropFirst(value, begin_value_pos + 1)
        ELSE value

\* displayname.split('=', 1)
SplitKeyValue(d) ==
    LET p == find(d, "=")
    IN  IF p = -1 THEN <<d>>
        ELSE <<SubSeq(d, 1, p), DropFirst(d, p + 1)>>

DecInit ==
    /\ children \in ChildLists
    /\ visit_pos = 0
    /\ result = EmptyDict
    /\ current_param_name = None
    /\ current_param_value = None
    /\ begun = <<>>
    /\ dec_pc = "loop"

DecIdle ==
    /\ children = <<>>
    /\ visit_pos = 0
    /\ result = EmptyDict
    /\ current_param_name = None
    /\ current_param_value = None
    /\ begun = <<>>
    /\ dec_pc = "idle"

InLoop == dec_pc = "loop" /\ visit_pos < Len(children)

\* a child that is no annotate attribute
DecodeOther ==
    /\ InLoop
    /\ CurrentChild.kind # ANNOTATE_ATTR
    /\ visit_pos' = visit_pos + 1
    /\ UNCHANGED <<children, result, current_param_name, current_param_value,
                   begun, dec_pc>>
    /\ UNCHANGED notDecVars

\* an end marker while a parameter is open: commit the tuple
DecodeEnd ==
    /\ InLoop
    /\ CurrentChild.kind = ANNOTATE_ATTR
    /\ ~IsNone(current_param_name)
    /\ startswith(CurrentChild.displayname, PARAM_END \o "-")
    /\ result' = DictAppend(result, The(current_param_name),
                            TupleEntry(The(current_param_value)))
    /\ current_param_name' = None
    /\ current_param_value' = None
    /\ visit_pos' = visit_pos + 1
    /\ UNCHANGED <<children, begun, dec_pc>>
    /\ UNCHANGED notDecVars

\* a value marker while a parameter is open
DecodeValue ==
    /\ InLoop
    /\ CurrentChild.kind = ANNOTATE_ATTR
    /\ ~IsNone(current_param_name)
    /\ ~startswith(CurrentChild.displayname, PARAM_END \o "-")
    /\ startswith(CurrentChild.displayname, PARAM_VALUE_PREFIX)
    /\ current_param_value' =
           Some(Append(The(current_param_value),
                       MarkerValue(CurrentChild.displayname)))
    /\ visit_pos' = visit_pos + 1
    /\ UNCHANGED <<children, result, current_param_name, begun, dec_pc>>
    /\ UNCHANGED notDecVars

\* the flag branch taken for an attribute met while a parameter is open
DecodeIgnoredAsFlag ==
    /\ InLoop
    /\ CurrentChild.kind = ANNOTATE_ATTR
    /\ ~IsNone(current_param_name)
    /\ ~startswith(CurrentChild.displayname, PARAM_END \o "-")
    /\ ~startswith(CurrentChild.displayname, PARAM_VALUE_PREFIX)
    /\ LET key_value_pair == SplitKeyValue(CurrentChild.displayname)
       IN  result' = DictAppend(result, key_value_pair[1],
                        IF Len(key_value_pair) > 1
                        THEN StrEntry(key_value_pair[2]) ELSE TrueEntry)
    /\ visit_pos' = visit_pos + 1
    /\ UNCHANGED <<children, current_param_name, current_param_value,
                   begun, dec_pc>>
    /\ UNCHANGED notDecVars

\* any other annotate attribute while a parameter is open: no branch taken
DecodeIgnored ==
    /\ InLoop
    /\ CurrentChild.kind = ANNOTATE_ATTR
    /\ ~IsNone(current_param_name)
    /\ ~startswith(CurrentChild.displayname, PARAM_END \o "-")
    /\ ~startswith(CurrentChild.displayname, PARAM_VALUE_PREFIX)
    /\ visit_pos' = visit_pos + 1
    /\ UNCHANGED <<children, result, current_param_name, current_param_value,
                   begun, dec_pc>>
    /\ UNCHANGED notDecVars

\* a begin marker while no parameter is open
DecodeBegin ==
    /\ InLoop
    /\ CurrentChild.kind = ANNOTATE_ATTR
    /\ IsNone(current_param_name)
    /\ startswith(CurrentChild.displayname, PARAM_BEGIN_PREFIX)
    /\ current_param_name' = Some(BeginName(CurrentChild.displayname))
    /\ current_param_value' = Some(<<>>)
    /\ begun' = Append(begun, visit_pos + 1)
    /\ visit_pos' = visit_pos + 1
    /\ UNCHANGED <<children, result, dec_pc>>
    /\ UNCHANGED notDecVars

\* a flag attribute key or key=value while no parameter is open
DecodeFlag ==
    /\ InLoop
    /\ CurrentChild.kind = ANNOTATE_ATTR
    /\ IsNone(current_param_name)
    /\ ~startswith(CurrentChild.displayname, PARAM_BEGIN_PREFIX)
    /\ LET key_value_pair == SplitKeyValue(CurrentChild.displayname)
       IN  result' = DictAppend(result, key_value_pair[1],
                        IF Len(key_value_pair) > 1
                        THEN StrEntry(key_value_pair[2]) ELSE TrueEntry)
    /\ visit_pos' = visit_pos + 1
    /\ UNCHANGED <<children, current_param_name, current_param_value,
                   begun, dec_pc>>
    /\ UNCHANGED notDecVars

\* after the loop: a parameter still open is committed
DecodeFinish ==
    /\ dec_pc = "loop"
    /\ visit_pos = Len(children)
    /\ result' = IF ~IsNone(current_param_name)
                 THEN DictAppend(result, The(current_param_name),
                                 TupleEntry(The(current_param_value)))
                 ELSE result
    /\ dec_pc' = "done"
    /\ UNCHANGED <<children, visit_pos, current_param_name,
                   current_param_value, begun>>
    /\ UNCHANGED notDecVars

DecNext ==
    \/ DecodeOther
    \/ DecodeEnd
    \/ DecodeValue
    \/ DecodeIgnored
    \/ DecodeBegin
    \/ DecodeFlag
    \/ DecodeFinish

InitDecoder ==
    /\ DecInit
    /\ CallIdle
    /\ TypeIdle
    /\ PathIdle
    /\ EnvIdle
    /\ NameIdle
    /\ WrapIdle

SpecDecoder == InitDecoder /\ [][DecNext]_vars

-----------------------------------------------------------------------------
(* Claims about get_annotations_from_cursor *)

\* The i-th child in visiting order (the reverse of the attachment order).
Visited(i) == children[Len(children) + 1 - i]

IsAnnotate(i) == Visited(i).kind = ANNOTATE_ATTR

IsEndMarker(i) ==
    IsAnnotate(i) /\ startswith(Visited(i).displayname, "arvida-eop-")

IsValueMarker(i) ==
    IsAnnotate(i) /\ startswith(Visited(i).displayname, "arvida-param-")

\* "the text after 'arvida-' with the last '-suffix' stripped"
StatedName(d) ==
    LET rest == SubSeq(d, Len("arvida-") + 1, Len(d))
        cuts == {i \in 1..Len(rest) :
                    /\ SubSeq(rest, i, i) = "-"
                    /\ \A j \in (i + 1)..Len(rest) : SubSeq(rest, j, j) # "-"}
    IN  IF cuts = {} THEN rest
        ELSE SubSeq(rest, 1, (CHOOSE i \in cuts : TRUE) - 1)

\* "with its leading token up to the first ':' removed"
StatedValue(d) ==
    LET rest == SubSeq(d, Len("arvida-param-") + 1, Len(d))
        colons == {i \in 1..Len(rest) : SubSeq(rest, i, i) = ":"}
    IN  IF colons = {} THEN rest
        ELSE SubSeq(rest, 1 + CHOOSE i \in colons : \A j \in colons : i <= j,
                    Len(rest))

\* The visiting position of the next end marker after p, or one past the end.
ClosingPos(p) ==
    LET ends == {j \in (p + 1)..Len(children) : IsEndMarker(j)}
    IN  IF ends = {} THEN Len(children) + 1
        ELSE CHOOSE j \in ends : \A k \in ends : j <= k

\* The values of the value markers strictly between positions lo and hi.
RECURSIVE ValuesBetween(_, _)
ValuesBetween(lo, hi) ==
    IF lo + 1 >= hi THEN <<>>
    ELSE IF IsValueMarker(lo + 1)
         THEN <<StatedValue(Visited(lo + 1).displayname)>>
                  \o ValuesBetween(lo + 1, hi)
         ELSE ValuesBetween(lo + 1, hi)

StatedTuple(p) == ValuesBetween(p, ClosingPos(p))

\* The tuples the parameters opened at positions ps commit under key k.
RECURSIVE StatedTuplesFor(_, _)
StatedTuplesFor(ps, k) ==
    IF ps = <<>> THEN <<>>
    ELSE IF StatedName(Visited(Head(ps)).displayname) = k
         THEN <<StatedTuple(Head(ps))>> \o StatedTuplesFor(Tail(ps), k)
         ELSE StatedTuplesFor(Tail(ps), k)

\* The tuples of a result list, in order.
RECURSIVE TuplesIn(_)
TuplesIn(entries) ==
    IF entries = <<>> THEN <<>>
    ELSE IF Head(entries).t = "tuple"
         THEN <<Head(entries).v>> \o TuplesIn(Tail(entries))
         ELSE TuplesIn(Tail(entries))

TuplesUnder(k) == IF k \in DOMAIN result THEN TuplesIn(result[k]) ELSE <<>>

BeginX == Attr("arvida-X-1")
ValueA == Attr("arvida-param-1:a")
ValueB == Attr("arvida-param-2:b")
EndMarker == Attr("arvida-eop-1")

\* C1: every begin marker met while no parameter is open commits exactly one
\* tuple under its name (the text after 'arvida-' without the last '-suffix'),
\* holding the values of the value markers that follow up to the next end
\* marker or the end of the list, each without its token before the first ':';
\* begin(X), value(a), value(b), end gives exactly (a, b) under X, and an
\* unterminated begin(X), value(a) gives exactly (a) under X.
C1_BeginCommitsOneTuple ==
    dec_pc = "done" =>
        /\ \A k \in DOMAIN result
                    \cup {StatedName(Visited(begun[i]).displayname) :
                            i \in 1..Len(begun)} :
              TuplesUnder(k) = StatedTuplesFor(begun, k)
        /\ (children = <<EndMarker, ValueB, ValueA, BeginX>>
              => result = [k \in {"X"} |-> <<TupleEntry(<<"a", "b">>)>>])
        /\ (children = <<ValueA, BeginX>>
              => result = [k \in {"X"} |-> <<TupleEntry(<<"a">>)>>])

C1_Witness ==
    /\ dec_pc = "done"
    /\ children = <<EndMarker, ValueB, ValueA, BeginX>>
    /\ begun = <<1>>
    /\ "X" \in DOMAIN result

-----------------------------------------------------------------------------
(* AnnotatedItem.from_cursor: grouping the call arguments into invocations *)

MaxParams == 5

STRING_PARAM == "STRING_PARAM"
OBJECT_PARAM == "OBJECT_PARAM"
TYPE_PARAM == "TYPE_PARAM"

AnnotationParam(kind, value) == [kind |-> kind, value |-> value]

is_string(p) == p.kind = STRING_PARAM
is_type(p) == p.kind = TYPE_PARAM
is_object(p) == p.kind = OBJECT_PARAM

is_end_of_parameters(p) == is_string(p) /\ p.value = PARAM_END

Annotation(name, ps) == [name |-> name, params |-> ps]

\* the name after the first parameter behind a boundary: str(param) when it
\* is a string, else the name as it was
FirstParamNameOfAnyKind(p, name) == Some(p.value)

FirstParamName(p, name) == IF is_string(p) THEN Some(p.value) ELSE name

AnnotatedItem(it, annos) == [item |-> it, annotations |-> annos]

\* The parameters a marker call may carry.
ParamPool ==
    { AnnotationParam(STRING_PARAM, "arvida-eop"),
      AnnotationParam(STRING_PARAM, "arvida-class-include"),
      AnnotationParam(STRING_PARAM, "x.h"),
      AnnotationParam(OBJECT_PARAM, "::obj"),
      AnnotationParam(TYPE_PARAM, "::T") }

ParamLists == UNION { [1..n -> ParamPool] : n \in 0..MaxParams }

CallInit ==
    /\ params \in ParamLists
    /\ param_pos = 0
    /\ item = None
    /\ first_param = TRUE
    /\ annotation_name = None
    /\ annotation_params = <<>>
    /\ annotations = <<>>
    /\ returned = None
    /\ call_pc = "start"

\* no argument, or no parameter collected: return None
FromCursorNone ==
    /\ call_pc = "start"
    /\ Len(params) = 0
    /\ returned' = None
    /\ call_pc' = "done"
    /\ UNCHANGED <<params, param_pos, item, first_param, annotation_name,
                   annotation_params, annotations>>
    /\ UNCHANGED notCallVars

\* parameter 0 is the target item when it is a type or an object
FromCursorItem ==
    /\ call_pc = "start"
    /\ Len(params) # 0
    /\ item' = IF ~is_type(params[1]) /\ ~is_object(params[1])
               THEN None ELSE Some(params[1])
    /\ first_param' = TRUE
    /\ annotation_name' = None
    /\ annotation_params' = <<>>
    /\ annotations' = <<>>
    /\ call_pc' = "loop"
    /\ UNCHANGED <<params, param_pos, returned>>
    /\ UNCHANGED notCallVars

\* the loop variable of "for param in params[1:]"
CurrentParam == params[param_pos + 2]

InParamLoop == call_pc = "loop" /\ param_pos + 1 < Len(params)

\* the end-of-parameters sentinel emits the invocation
FromCursorEnd ==
    /\ InParamLoop
    /\ is_end_of_parameters(CurrentParam)
    /\ annotations' = Append(annotations,
                             Annotation(annotation_name, annotation_params))
    /\ first_param' = TRUE
    /\ annotation_name' = None
    /\ annotation_params' = <<>>
    /\ param_pos' = param_pos + 1
    /\ UNCHANGED <<params, item, returned, call_pc>>
    /\ UNCHANGED notCallVars

\* the first parameter after a boundary: the name, when it is a string
FromCursorFirst ==
    /\ InParamLoop
    /\ ~is_end_of_parameters(CurrentParam)
    /\ first_param
    /\ first_param' = FALSE
    /\ annotation_name' = FirstParamName(CurrentParam, annotation_name)
    /\ param_pos' = param_pos + 1
    /\ UNCHANGED <<params, item, annotation_params, annotations, returned,
                   call_pc>>
    /\ UNCHANGED notCallVars

\* a further parameter of the open invocation
FromCursorParam ==
    /\ InParamLoop
    /\ ~is_end_of_parameters(CurrentParam)
    /\ ~first_param
    /\ annotation_params' = Append(annotation_params, CurrentParam)
    /\ param_pos' = param_pos + 1
    /\ UNCHANGED <<params, item, first_param, annotation_name, annotations,
                   returned, call_pc>>
    /\ UNCHANGED notCallVars

\* after the loop: return the item with the invocations emitted
FromCursorReturn ==
    /\ call_pc = "loop"
    /\ param_pos + 1 >= Len(params)
    /\ returned' = Some(AnnotatedItem(item, annotations))
    /\ call_pc' = "done"
    /\ UNCHANGED <<params, param_pos, item, first_param, annotation_name,
                   annotation_params, annotations>>
    /\ UNCHANGED notCallVars

CallNext ==
    \/ FromCursorNone
    \/ FromCursorItem
    \/ FromCursorEnd
    \/ FromCursorFirst
    \/ FromCursorParam
    \/ FromCursorReturn

InitCall ==
    /\ CallInit
    /\ DecIdle
    /\ TypeIdle
    /\ PathIdle
    /\ EnvIdle
    /\ NameIdle
    /\ WrapIdle

SpecCall == InitCall /\ [][CallNext]_vars

-----------------------------------------------------------------------------
(* Claims about AnnotatedItem.from_cursor *)

\* Positions in params of the end-of-parameters sentinels after parameter 0.
SentinelPositions ==
    {i \in 2..Len(params) :
        params[i].kind = "STRING_PARAM" /\ params[i].value = "arvida-eop"}

\* The position of the n-th sentinel, n >= 1; position 1 (parameter 0) for 0.
RECURSIVE Boundary(_)
Boundary(n) ==
    IF n = 0 THEN 1
    ELSE CHOOSE i \in SentinelPositions :
            /\ i > Boundary(n - 1)
            /\ \A j \in SentinelPositions : j > Boundary(n - 1) => i <= j

\* The parameters between the boundary before the n-th sentinel and it.
Segment(n) == SubSeq(params, Boundary(n - 1) + 1, Boundary(n) - 1)

\* The parameters after the last boundary.
OpenSegment ==
    SubSeq(params, Boundary(Cardinality(SentinelPositions)) + 1, Len(params))

\* Positions of the string parameters of a list.
StringPositions(seg) == {i \in 1..Len(seg) : seg[i].kind = "STRING_PARAM"}

FirstStringPosition(seg) ==
    CHOOSE i \in StringPositions(seg) : \A j \in StringPositions(seg) : i <= j

Emitted == The(returned).annotations

\* C2 as stated: every emitted invocation is named by the first string
\* parameter after the previous boundary and holds exactly the parameters
\* between that name and the closing sentinel; invocations come in source
\* order and each has a string name.
C2_AsStated ==
    (call_pc = "done" /\ ~IsNone(returned)) =>
        /\ Len(Emitted) = Cardinality(SentinelPositions)
        /\ \A n \in 1..Len(Emitted) :
              /\ StringPositions(Segment(n)) # {}
              /\ Emitted[n].name =
                     <<Segment(n)[FirstStringPosition(Segment(n))].value>>
              /\ Emitted[n].params =
                     SubSeq(Segment(n), FirstStringPosition(Segment(n)) + 1,
                            Len(Segment(n)))

\* C2 (amended): one invocation is emitted per end-of-parameters sentinel, in
\* source order; its name is the parameter directly after the previous
\* boundary when that parameter is a string and None otherwise (no parameter
\* there, or an object/type reference); its parameters are exactly the
\* parameters between that first one and the closing sentinel, in source order.
C2_GroupedByFirstParam ==
    (call_pc = "done" /\ ~IsNone(returned)) =>
        /\ Len(Emitted) = Cardinality(SentinelPositions)
        /\ \A n \in 1..Len(Emitted) :
              /\ Emitted[n].name =
                     IF Segment(n) # <<>> /\ Segment(n)[1].kind = "STRING_PARAM"
                     THEN <<Segment(n)[1].value>> ELSE <<>>
              /\ Emitted[n].params = SubSeq(Segment(n), 2, Len(Segment(n)))

C2_Witness ==
    /\ call_pc = "done"
    /\ ~IsNone(returned)
    /\ Len(Emitted) = 2
    /\ Emitted[1].name = <<"arvida-class-include">>
    /\ Len(Emitted[1].params) = 1
    /\ Emitted[2].name = <<>>

\* C3 as stated: an invocation still open when the parameter list ends (its
\* name was read, no sentinel followed) is in the returned invocation list
\* with the arguments collected so far.
C3_OpenInvocationClosed ==
    (/\ call_pc = "done"
     /\ ~IsNone(returned)
     /\ OpenSegment # <<>>
     /\ OpenSegment[1].kind = "STRING_PARAM") =>
        /\ Len(Emitted) = Cardinality(SentinelPositions) + 1
        /\ Emitted[Len(Emitted)] =
               [name |-> <<OpenSegment[1].value>>,
                params |-> SubSeq(OpenSegment, 2, Len(OpenSegment))]


-----------------------------------------------------------------------------
(* tokenize_type_spelling, analyze_type_spelling, TypeSpellingInfo.__str__ *)

MaxTokens == 6

Digits == {"0", "1", "2", "3", "4", "5", "6", "7", "8", "9"}
HexDigits == Digits \cup {"a", "b", "c", "d", "e", "f",
                          "A", "B", "C", "D", "E", "F"}
Whitespace == {" ", "\t", "\n", "\r"}
Punctuation == {"<", ">", ","}

DigitValue(c) ==
    CASE c = "0" -> 0 [] c = "1" -> 1 [] c = "2" -> 2 [] c = "3" -> 3
      [] c = "4" -> 4 [] c = "5" -> 5 [] c = "6" -> 6 [] c = "7" -> 7
      [] c = "8" -> 8 [] c = "9" -> 9

DigitChar(n) ==
    CASE n = 0 -> "0" [] n = 1 -> "1" [] n = 2 -> "2" [] n = 3 -> "3"
      [] n = 4 -> "4" [] n = 5 -> "5" [] n = 6 -> "6" [] n = 7 -> "7"
      [] n = 8 -> "8" [] n = 9 -> "9"

\* int(intnum) for a run of decimal digits
RECURSIVE int(_)
int(ds) ==
    IF ds = "" THEN 0
    ELSE 10 * int(SubSeq(ds, 1, Len(ds) - 1)) + DigitValue(CharAt(ds, Len(ds)))

\* str(n) for an int n >= 0
RECURSIVE str_of_int(_)
str_of_int(n) ==
    IF n < 10 THEN DigitChar(n)
    ELSE str_of_int(n \div 10) \o DigitChar(n % 10)

\* The last position of the longest run of characters of set cs from p on.
RECURSIVE RunEnd(_, _, _)
RunEnd(s, p, cs) ==
    IF p <= Len(s) /\ CharAt(s, p) \in cs THEN RunEnd(s, p + 1, cs) ELSE p - 1

\* The last position of the "rest" alternative (?:::|[^<>:,])* from p on.
RECURSIVE RestEnd(_, _)
RestEnd(s, p) ==
    IF p > Len(s) THEN p - 1
    ELSE IF p < Len(s) /\ SubSeq(s, p, p + 1) = "::" THEN RestEnd(s, p + 2)
    ELSE IF CharAt(s, p) \notin {"<", ">", ":", ","} THEN RestEnd(s, p + 1)
    ELSE p - 1

\* Tokens: a name, an int, a punctuation sign, or the ValueError that
\* int(hexnum) raises for a hexadecimal literal.
StrToken(x) == [t |-> "str", s |-> x, n |-> 0]
IntToken(x) == [t |-> "int", s |-> "", n |-> x]
PunctToken(x) == [t |-> "punct", s |-> x, n |-> 0]
ValueError(x) == [t |-> "ValueError", s |-> x, n |-> 0]

IsHexLiteralAt(s, p) ==
    /\ p + 2 <= Len(s)
    /\ CharAt(s, p) = "0"
    /\ CharAt(s, p + 1) \in {"x", "X"}
    /\ CharAt(s, p + 2) \in HexDigits

\* re.finditer(TOKEN_SCANNER, str) from position p on
RECURSIVE TokensFrom(_, _)
TokensFrom(s, p) ==
    IF p > Len(s) THEN <<>>
    ELSE IF CharAt(s, p) \in Whitespace
         THEN TokensFrom(s, RunEnd(s, p, Whitespace) + 1)
    ELSE IF IsHexLiteralAt(s, p)
         THEN <<ValueError(SubSeq(s, p, RunEnd(s, p + 2, HexDigits)))>>
                  \o TokensFrom(s, RunEnd(s, p + 2, HexDigits) + 1)
    ELSE IF CharAt(s, p) \in Digits
         THEN <<IntToken(int(SubSeq(s, p, RunEnd(s, p, Digits))))>>
                  \o TokensFrom(s, RunEnd(s, p, Digits) + 1)
    ELSE IF CharAt(s, p) \in Punctuation
         THEN <<PunctToken(CharAt(s, p))>> \o TokensFrom(s, p + 1)
    ELSE IF RestEnd(s, p) < p
         THEN TokensFrom(s, p + 1)
    ELSE <<StrToken(SubSeq(s, p, RestEnd(s, p)))>>
             \o TokensFrom(s, RestEnd(s, p) + 1)

tokenize_type_spelling(s) == TokensFrom(s, 1)

\* The objects analyze_type_spelling works on.  A reference is a
\* TypeSpellingInfo object, by its index in the heap, or an int token.
NodeRef(i) == [k |-> "node", v |-> i]
IntRef(n) == [k |-> "int", v |-> n]

\* TypeSpellingInfo(name): template_arguments is None
NewInfo(name) == [name |-> name, template_arguments |-> None]

\* TypeSpellingInfo.add_argument on object i of the heap
add_argument(heap, i, ref) ==
    [heap EXCEPT ![i].template_arguments =
        IF IsNone(@) THEN Some(<<ref>>) ELSE Some(Append(The(@), ref))]

\* The '<' branch: the empty argument list is given to tsi, the node on top,
\* before tsi moves to tsi_arg.
OpenBracket(st) ==
    IF st.tsi.k # "node" THEN [st EXCEPT !.err = TRUE]
    ELSE [st EXCEPT
            !.heap = IF IsNone(st.heap[st.tsi.v].template_arguments)
                     THEN [st.heap EXCEPT
                              ![st.tsi.v].template_arguments = Some(<<>>)]
                     ELSE st.heap,
            !.stack = Append(st.stack, st.tsi),
            !.tsi = st.tsi_arg]

\* The '>' branch
CloseBracket(st) ==
    IF Len(st.stack) = 0 THEN [st EXCEPT !.err = TRUE]
    ELSE [st EXCEPT !.tsi = st.stack[Len(st.stack)],
                    !.stack = SubSeq(st.stack, 1, Len(st.stack) - 1)]

\* The else branch: a name or an int becomes an argument of tsi
AddToken(st, token) ==
    IF st.tsi.k # "node" THEN [st EXCEPT !.err = TRUE]
    ELSE IF token.t = "int"
    THEN [st EXCEPT !.tsi_arg = IntRef(token.n),
                    !.heap = add_argument(st.heap, st.tsi.v, IntRef(token.n))]
    ELSE [st EXCEPT
            !.tsi_arg = NodeRef(Len(st.heap) + 1),
            !.heap = add_argument(Append(st.heap, NewInfo(token)), st.tsi.v,
                                  NodeRef(Len(st.heap) + 1))]

\* One iteration of the while loop
AnalyzeStep(st, token) ==
    IF token = PunctToken("<") THEN OpenBracket(st)
    ELSE IF token = PunctToken(">") THEN CloseBracket(st)
    ELSE IF token = PunctToken(",") THEN st
    ELSE AddToken(st, token)

RECURSIVE AnalyzeLoop(_, _, _)
AnalyzeLoop(st, tokens, i) ==
    IF st.err \/ i > Len(tokens) THEN st
    ELSE AnalyzeLoop(AnalyzeStep(st, tokens[i]), tokens, i + 1)

\* The tree of objects reachable from a reference.
RECURSIVE TreeOf(_, _)
TreeOf(heap, ref) ==
    IF ref.k = "int"
    THEN [lit |-> TRUE, name |-> IntToken(ref.v), args |-> None]
    ELSE [lit |-> FALSE,
          name |-> heap[ref.v].name,
          args |-> IF IsNone(heap[ref.v].template_arguments) THEN None
                   ELSE Some([j \in 1..Len(The(heap[ref.v].template_arguments))
                               |-> TreeOf(heap,
                                     The(heap[ref.v].template_arguments)[j])])]

ReturnsNone == [status |-> "None"]
Raises == [status |-> "raises"]
Returns(tree) == [status |-> "ok", tree |-> tree]

analyze_type_spelling(s) ==
    LET tokens == tokenize_type_spelling(s)
        st0 == [heap |-> <<NewInfo(tokens[1])>>, tsi |-> NodeRef(1),
                tsi_arg |-> NodeRef(1), stack |-> <<>>, err |-> FALSE]
        st == AnalyzeLoop(st0, tokens, 2)
    IN  IF \E i \in 1..Len(tokens) : tokens[i].t = "ValueError" THEN Raises
        ELSE IF tokens = <<>> THEN ReturnsNone
        ELSE IF tokens[1].t = "punct" THEN ReturnsNone
        ELSE IF st.err \/ Len(st.stack) # 0 THEN Raises
        ELSE Returns(TreeOf(st.heap, st.tsi))

\* ', '.join(parts)
RECURSIVE JoinComma(_)
JoinComma(parts) ==
    IF parts = <<>> THEN ""
    ELSE IF Len(parts) = 1 THEN parts[1]
    ELSE parts[1] \o ", " \o JoinComma(Tail(parts))

endswith(s, ch) == Len(s) > 0 /\ CharAt(s, Len(s)) = ch

\* TypeSpellingInfo.__str__, and str() of an int argument
RECURSIVE StrOfTree(_)
StrOfTree(tree) ==
    LET name == IF tree.name.t = "int" THEN str_of_int(tree.name.n)
                ELSE tree.name.s
    IN  IF IsNone(tree.args) THEN name
        ELSE LET res == name \o "<" \o
                        JoinComma([j \in 1..Len(The(tree.args)) |->
                                      StrOfTree(The(tree.args)[j])])
             IN  (IF endswith(res, ">") THEN res \o " " ELSE res) \o ">"


\* Spellings: every well-formed sequence of at most MaxTokens of these
\* one-character tokens, written without spaces, and some longer ones.
GenTokens == {"A", "B", "4", "<", ">", ","}

RECURSIVE Concat(_)
Concat(g) == IF g = <<>> THEN "" ELSE Head(g) \o Concat(Tail(g))

\* The grammar of a well-formed spelling: a name or an integer literal, a
\* name optionally followed by '<' arguments separated by ',' '>'.
RECURSIVE GrammarNode(_, _), GrammarList(_, _)
GrammarNode(g, i) ==
    IF i > Len(g) THEN [ok |-> FALSE]
    ELSE IF g[i] \in Digits THEN [ok |-> TRUE, next |-> i + 1]
    ELSE IF g[i] \in Punctuation THEN [ok |-> FALSE]
    ELSE IF i + 1 <= Len(g) /\ g[i + 1] = "<"
         THEN (IF i + 2 <= Len(g) /\ g[i + 2] = ">"
               THEN [ok |-> TRUE, next |-> i + 3]
               ELSE GrammarList(g, i + 2))
         ELSE [ok |-> TRUE, next |-> i + 1]

GrammarList(g, i) ==
    LET first == GrammarNode(g, i)
    IN  IF ~first.ok \/ first.next > Len(g) THEN [ok |-> FALSE]
        ELSE IF g[first.next] = ">" THEN [ok |-> TRUE, next |-> first.next + 1]
        ELSE IF g[first.next] = "," THEN GrammarList(g, first.next + 1)
        ELSE [ok |-> FALSE]

WellFormed(g) ==
    /\ g # <<>>
    /\ g[1] \notin Digits
    /\ GrammarNode(g, 1).ok
    /\ GrammarNode(g, 1).next = Len(g) + 1

GeneratedSpellings ==
    {Concat(g) : g \in {h \in UNION {[1..n -> GenTokens] : n \in 1..MaxTokens} :
                          WellFormed(h)}}

SampleSpellings ==
    {"Foo<Bar<int,4>,Baz>", "A<B<4> >", "ns::A<B, 40>", "A<0x1F>"}

TypeInit ==
    /\ spelling \in GeneratedSpellings \cup SampleSpellings
    /\ analysed = NoOutcome
    /\ respelled = ""
    /\ reanalysed = NoOutcome
    /\ type_pc = "start"

\* tsi = analyze_type_spelling(spelling)
Analyze ==
    /\ type_pc = "start"
    /\ analysed' = analyze_type_spelling(spelling)
    /\ type_pc' = "analysed"
    /\ UNCHANGED <<spelling, respelled, reanalysed>>
    /\ UNCHANGED notTypeVars

\* str(tsi)
Respell ==
    /\ type_pc = "analysed"
    /\ analysed.status = "ok"
    /\ respelled' = StrOfTree(analysed.tree)
    /\ type_pc' = "respelled"
    /\ UNCHANGED <<spelling, analysed, reanalysed>>
    /\ UNCHANGED notTypeVars

\* analyze_type_spelling(str(tsi))
Reanalyze ==
    /\ type_pc = "respelled"
    /\ reanalysed' = analyze_type_spelling(respelled)
    /\ type_pc' = "done"
    /\ UNCHANGED <<spelling, analysed, respelled>>
    /\ UNCHANGED notTypeVars

TypeNext ==
    \/ Analyze
    \/ Respell
    \/ Reanalyze

InitType ==
    /\ TypeInit
    /\ DecIdle
    /\ CallIdle
    /\ PathIdle
    /\ EnvIdle
    /\ NameIdle
    /\ WrapIdle

SpecType == InitType /\ [][TypeNext]_vars

-----------------------------------------------------------------------------
(* Claims about analyze_type_spelling *)

Name(x) == [lit |-> FALSE, name |-> [t |-> "str", s |-> x, n |-> 0],
            args |-> <<>>]
Literal(x) == [lit |-> TRUE, name |-> [t |-> "int", s |-> "", n |-> x],
               args |-> <<>>]
Template(x, args) == [lit |-> FALSE, name |-> [t |-> "str", s |-> x, n |-> 0],
                      args |-> <<args>>]

\* The tree a well-formed sequence of one-character tokens spells: the node
\* of the token at i with its arguments nested in order.
RECURSIVE SpelledNode(_, _), SpelledList(_, _)
SpelledNode(g, i) ==
    IF g[i] \in Digits
    THEN [tree |-> Literal(int(g[i])), next |-> i + 1]
    ELSE IF i + 1 <= Len(g) /\ g[i + 1] = "<"
         THEN (IF g[i + 2] = ">"
               THEN [tree |-> Template(g[i], <<>>), next |-> i + 3]
               ELSE LET l == SpelledList(g, i + 2)
                    IN  [tree |-> Template(g[i], l.trees), next |-> l.next])
         ELSE [tree |-> Name(g[i]), next |-> i + 1]

SpelledList(g, i) ==
    LET first == SpelledNode(g, i)
    IN  IF g[first.next] = ">"
        THEN [trees |-> <<first.tree>>, next |-> first.next + 1]
        ELSE LET rest == SpelledList(g, first.next + 1)
             IN  [trees |-> <<first.tree>> \o rest.trees, next |-> rest.next]

Characters(s) == [i \in 1..Len(s) |-> SubSeq(s, i, i)]

SpelledTree(s) == SpelledNode(Characters(s), 1).tree

FooTree ==
    Template("Foo", <<Template("Bar", <<Name("int"), Literal(4)>>),
                      Name("Baz")>>)

\* C4 as stated: for every well-formed spelling, nested templates with an
\* empty argument list included, analyze_type_spelling returns the node of
\* the first token with its arguments nested in order
\* (Foo<Bar<int,4>,Baz> gives Foo(Bar(int,4), Baz)), and analysing str() of
\* the returned tree gives a structurally equal tree.
C4_AsStated ==
    /\ (type_pc # "start" /\ spelling \in GeneratedSpellings)
          => analysed = [status |-> "ok", tree |-> SpelledTree(spelling)]
    /\ (type_pc # "start" /\ spelling = "Foo<Bar<int,4>,Baz>")
          => analysed = [status |-> "ok", tree |-> FooTree]
    /\ type_pc = "done" => reanalysed = analysed

\* The two parts of C4 that the code does satisfy.
C4_RoundTripOfReturnedTree ==
    /\ (type_pc # "start" /\ spelling = "Foo<Bar<int,4>,Baz>")
          => analysed = [status |-> "ok", tree |-> FooTree]
    /\ type_pc = "done" => reanalysed = analysed


-----------------------------------------------------------------------------
(* parse_inline_template, subst, process_path_annotation *)

MaxPieces == 4

TextValue(v) == [t |-> "TextValue", value |-> v]
SubstValue(v) == [t |-> "SubstValue", value |-> v]

\* One iteration of the while loop of parse_inline_template on character c.
ParseChar(st, c) ==
    IF st.as_is
    THEN [st EXCEPT !.as_is = FALSE, !.curstr = @ \o c]
    ELSE IF c = "\\"
    THEN [st EXCEPT !.as_is = TRUE]
    ELSE IF c = "{"
    THEN (IF st.brace_level = 0
          THEN [st EXCEPT !.brace_level = 1,
                          !.result = IF Len(st.curstr) # 0
                                     THEN Append(@, TextValue(st.curstr))
                                     ELSE @,
                          !.curstr = ""]
          ELSE [st EXCEPT !.brace_level = @ + 1, !.curstr = @ \o c])
    ELSE IF c = "}"
    THEN (IF st.brace_level = 1
          THEN [st EXCEPT !.brace_level = 0,
                          !.result = Append(@, SubstValue(st.curstr)),
                          !.curstr = ""]
          ELSE IF st.brace_level > 0
          THEN [st EXCEPT !.brace_level = @ - 1, !.curstr = @ \o c]
          ELSE [st EXCEPT !.curstr = @ \o c])
    ELSE [st EXCEPT !.curstr = @ \o c]

RECURSIVE ParseFrom(_, _, _)
ParseFrom(st, s, i) ==
    IF i > Len(s) THEN st ELSE ParseFrom(ParseChar(st, CharAt(s, i)), s, i + 1)

parse_inline_template(s) ==
    LET st == ParseFrom([result |-> <<>>, curstr |-> "", brace_level |-> 0,
                         as_is |-> FALSE], s, 1)
    IN  IF Len(st.curstr) > 0
        THEN Append(st.result, IF st.brace_level > 0 THEN SubstValue(st.curstr)
                               ELSE TextValue(st.curstr))
        ELSE st.result

\* str.replace(old, new)
RECURSIVE replace(_, _, _)
replace(s, old, new) ==
    IF Len(s) < Len(old) THEN s
    ELSE IF SubSeq(s, 1, Len(old)) = old
         THEN new \o replace(DropFirst(s, Len(old)), old, new)
         ELSE CharAt(s, 1) \o replace(DropFirst(s, 1), old, new)

DEFAULT_PATH_SUBST_LIST ==
    << <<"$this", "this">>, <<"$that", "_that">>,
       <<"$element", "_element">>, <<"$ctx", "ctx">> >>

CLASS_PATH_SUBST_LIST == << <<"$this", "_this">>, <<"$ctx", "ctx">> >>

substNothing(s, subst_list) == s

RECURSIVE subst(_, _)
subst(s, subst_list) ==
    IF subst_list = <<>> THEN s
    ELSE subst(replace(s, Head(subst_list)[1], Head(subst_list)[2]),
               Tail(subst_list))

\* json.dumps(s) for a str of printable ASCII characters
RECURSIVE JsonEscape(_)
JsonEscape(s) ==
    IF s = "" THEN ""
    ELSE (IF CharAt(s, 1) = "\"" THEN "\\\""
          ELSE IF CharAt(s, 1) = "\\" THEN "\\\\"
          ELSE CharAt(s, 1)) \o JsonEscape(DropFirst(s, 1))

quote_string_literal(s) == "\"" \o JsonEscape(s) \o "\""

\* normalize_annotation_value: a tuple of one value is that value
normalize_annotation_value(entry) == entry.v[1]

\* the two operands the other way round
joinPathSwapped(a, b) == "Arvida::RDF::joinPath(" \o b \o "," \o a \o ")"

joinPath(a, b) == "Arvida::RDF::joinPath(" \o a \o "," \o b \o ")"

\* the for loop of process_path_annotation over the parsed segments
RECURSIVE JoinSegments(_, _, _)
JoinSegments(pp_path, segments, subst_list) ==
    IF segments = <<>> THEN pp_path
    ELSE LET i == Head(segments)
             value == IF i.t = "TextValue" THEN quote_string_literal(i.value)
                      ELSE "(" \o subst(i.value, subst_list) \o ")"
         IN  JoinSegments(IF Len(value) > 0
                          THEN (IF Len(pp_path) > 0 THEN joinPath(pp_path, value)
                                ELSE value)
                          ELSE pp_path,
                          Tail(segments), subst_list)

process_path_annotation(list, subst_list) ==
    LET paths == [i \in 1..Len(list) |-> normalize_annotation_value(list[i])]
        unquoted_path == IF paths # <<>> THEN Some(paths[Len(paths)]) ELSE None
        truthy == ~IsNone(unquoted_path) /\ The(unquoted_path) # ""
    IN  [path |-> IF truthy THEN Some(quote_string_literal(The(unquoted_path)))
                  ELSE None,
         unquoted_path |-> unquoted_path,
         pp_path |-> IF truthy
                     THEN JoinSegments("",
                              parse_inline_template(The(unquoted_path)),
                              subst_list)
                     ELSE "\"\""]

\* Path annotation texts: up to MaxPieces of these pieces.
PathPieces == {"{", "}", "\\", "$this", "/name", "$that"}

PathTexts == {Concat(g) : g \in UNION {[1..n -> PathPieces] : n \in 0..MaxPieces}}

\* Path annotation texts of up to MaxSegments segments: three texts (one
\* with an escaped brace) and two substitutions.
MaxSegments == 3

SegmentSources == {"/name", "$this", "\\{b", "{$this}", "{$that}"}

SegmentedPaths ==
    {Concat(g) : g \in UNION {[1..n -> SegmentSources] : n \in 1..MaxSegments}}

\* Annotation values declared before the last one.
EarlierPaths == { <<>>, <<StrEntry("{$ctx}/old")>> }

PathInit ==
    /\ \E earlier \in EarlierPaths :
          path_annotation_list \in
              {earlier} \cup {Append(earlier, StrEntry(p)) :
                                  p \in PathTexts \cup SegmentedPaths}
                        \cup {Append(earlier, TupleEntry(<<"{$this}/name">>))}
    /\ path_subst_list \in {DEFAULT_PATH_SUBST_LIST, CLASS_PATH_SUBST_LIST}
    /\ path_result = None
    /\ path_pc = "start"

ProcessPathAnnotation ==
    /\ path_pc = "start"
    /\ path_result' = Some(process_path_annotation(path_annotation_list,
                                                   path_subst_list))
    /\ path_pc' = "done"
    /\ UNCHANGED <<path_annotation_list, path_subst_list>>
    /\ UNCHANGED notPathVars

PathNext == ProcessPathAnnotation

InitPath ==
    /\ PathInit
    /\ DecIdle
    /\ CallIdle
    /\ TypeIdle
    /\ EnvIdle
    /\ NameIdle
    /\ WrapIdle

SpecPath == InitPath /\ [][PathNext]_vars

-----------------------------------------------------------------------------
(* Claims about process_path_annotation *)

PlainTexts == {"", "/name", "/name/name"}

LastPathText == path_annotation_list[Len(path_annotation_list)].v[1]

MemberPathDone ==
    /\ path_pc = "done"
    /\ path_annotation_list # <<>>
    /\ path_subst_list[1] = <<"$this", "this">>

\* C10 as stated: the member path "{$this}/name" compiles to the single
\* variable segment '(this)'.
C10_AsStated ==
    (MemberPathDone /\ LastPathText = "{$this}/name")
        => The(path_result).pp_path = "(this)"

\* C10 (amended): the member path "{$this}" followed by a literal text
\* compiles to the variable segment '(this)' first, with no literal text
\* segment in front of it, joined by one joinPath with the quoted literal
\* ("{$this}/name" gives Arvida::RDF::joinPath((this),"/name")); it is the
\* single segment '(this)' only when no literal text follows.
C10_ThisSegmentFirst ==
    \A t \in PlainTexts :
        (MemberPathDone /\ LastPathText = "{$this}" \o t)
            => The(path_result).pp_path =
                   IF t = "" THEN "(this)"
                   ELSE "Arvida::RDF::joinPath((this),\"" \o t \o "\")"

C10_Witness ==
    /\ MemberPathDone
    /\ LastPathText = "{$this}/name"
    /\ The(path_result).pp_path = "Arvida::RDF::joinPath((this),\"/name\")"

-----------------------------------------------------------------------------
(* Environment: the classes of a translation unit and their annotations *)

\* dict.get(key) and dict.get(key, default)
get(d, key) == IF key \in DOMAIN d THEN Some(d[key]) ELSE None
get_or(d, key, default) == IF key \in DOMAIN d THEN d[key] ELSE default

\* str(param): the value of a string, the full name of an item
str(p) == p.value

\* unquote_string_literal, for a well-formed JSON string literal
RECURSIVE JsonUnescape(_)
JsonUnescape(s) ==
    IF s = "" THEN ""
    ELSE IF CharAt(s, 1) = "\\" /\ Len(s) >= 2
         THEN CharAt(s, 2) \o JsonUnescape(DropFirst(s, 2))
         ELSE CharAt(s, 1) \o JsonUnescape(DropFirst(s, 1))

unquote_string_literal(s) ==
    IF startswith(s, "\"") THEN JsonUnescape(SubSeq(s, 2, Len(s) - 1)) ELSE s

Range(seq) == {seq[i] : i \in DOMAIN seq}

Indices(seq) == [i \in 1..Len(seq) |-> i]

\* OrderedSet.add
OrderedAdd(seq, x) == IF x \in Range(seq) THEN seq ELSE Append(seq, x)

\* the elements of a set of classes in the order the set iterates
SetOrder(S) == SelectSeq(hash_order, LAMBDA c : c \in S)

(* Classes.  A class is its full name, the full names of its bases and its *)
(* members in the order of Class.members: the public fields, the public    *)
(* methods, then the members of each anonymous struct or union; anonymous  *)
(* is 0 for a member of the class itself.                                  *)

Field(name) ==
    [kind |-> "Field", name |-> name, arity |-> 0, anonymous |-> 0]
Function(name, arity) ==
    [kind |-> "Function", name |-> name, arity |-> arity, anonymous |-> 0]
Class(full_name, bases, members) ==
    [full_name |-> full_name, bases |-> bases, members |-> members]

\* Field.is_getter, Function.is_getter
is_getter(m) ==
    IF m.kind = "Field" THEN TRUE
    ELSE startswith(m.name, "get") /\ (m.arity = 0 \/ m.arity = 1)

\* the arity test alone
is_setter_by_arity(m) ==
    IF m.kind = "Field" THEN TRUE ELSE m.arity = 1

\* Field.is_setter, Function.is_setter
is_setter(m) ==
    IF m.kind = "Field" THEN TRUE
    ELSE startswith(m.name, "set") /\ m.arity = 1

\* Class.find_functions: the class's own methods of that name
find_functions(c, name) ==
    SelectSeq(Indices(classes[c].members),
              LAMBDA i : LET m == classes[c].members[i]
                         IN  /\ m.kind = "Function"
                             /\ m.anonymous = 0
                             /\ m.name = name)

\* a name that no member has falls back to the first member
find_members_or_first(c, name) ==
    LET hits == SelectSeq(Indices(classes[c].members),
                    LAMBDA i : classes[c].members[i].name = name)
    IN  IF hits = <<>> /\ classes[c].members # <<>> THEN <<1>> ELSE hits

\* Class.find_members: fields, methods, then the anonymous members
find_members(c, name) ==
    SelectSeq(Indices(classes[c].members),
              LAMBDA i : classes[c].members[i].name = name)

\* Class.find_field: the first field of that name, own fields first
find_field(c, name) ==
    LET hits == SelectSeq(Indices(classes[c].members),
                    LAMBDA i : /\ classes[c].members[i].kind = "Field"
                               /\ classes[c].members[i].name = name)
    IN  IF hits = <<>> THEN None ELSE Some(Head(hits))

\* Class.has_annotations(True): own annotations, own methods, own fields
has_annotations(c) ==
    \/ DOMAIN cls_annotations[c] # {}
    \/ \E i \in DOMAIN classes[c].members :
          /\ classes[c].members[i].anonymous = 0
          /\ DOMAIN member_annotations[c][i] # {}

\* name_to_class_map.get(name): the last class of that full name
name_to_class_map(name) ==
    LET hits == {c \in DOMAIN classes : classes[c].full_name = name}
    IN  IF hits = {} THEN None
        ELSE Some(CHOOSE c \in hits : \A d \in hits : d <= c)

(* The environments examined.  An invocation is an Annotation of string    *)
(* parameters; an AnnotatedItem carries the invocations made on one class, *)
(* or on no item for the global ones.                                      *)

Strings(values) ==
    [i \in 1..Len(values) |-> AnnotationParam(STRING_PARAM, values[i])]

Invocation(name, values) == Annotation(Some(name), Strings(values))

ItemFor(full_name, invocations) ==
    AnnotatedItem(Some(AnnotationParam(TYPE_PARAM, full_name)), invocations)

GlobalItem(invocations) == AnnotatedItem(None, invocations)

RECURSIVE Flatten(_)
Flatten(seqs) ==
    IF seqs = <<>> THEN <<>> ELSE Head(seqs) \o Flatten(Tail(seqs))

(* Hierarchies: four classes, each deriving from earlier ones, each with   *)
(* one role: plain, annotated with a semantic, defining the accessor getId *)
(* or getUid that a global uid-method annotation names, or annotated with  *)
(* use-visitor.                                                            *)

HierarchyNames == <<"A", "B", "C", "D">>

HierarchyBases ==
    { <<a, b, c, d>> :
        a \in { <<>> },
        b \in { <<>>, <<"A">> },
        c \in { <<>>, <<"A">>, <<"B">>, <<"A", "B">> },
        d \in { <<>>, <<"C">>, <<"B", "C">> } }

\* the roles of A, B and C; D is plain or annotated with a semantic
UidRoles == {"plain", "semantic", "getId", "getUid"}
VisitorRoles == {"plain", "semantic", "visitor"}
LastRoles == {"plain", "semantic"}

HierarchyRoles ==
    { r \in [DOMAIN HierarchyNames -> UidRoles] \cup
            [DOMAIN HierarchyNames -> VisitorRoles] :
        r[Len(HierarchyNames)] \in LastRoles }

RoleMembers(role) ==
    IF role \in {"getId", "getUid"} THEN <<Function(role, 0)>> ELSE <<>>

RoleItems(name, role) ==
    IF role = "semantic"
    THEN <<ItemFor(name,
                   <<Invocation("arvida-object-semantic", <<"ex:Thing">>)>>)>>
    ELSE IF role = "visitor"
    THEN <<ItemFor(name,
                   <<Invocation("arvida-class-use-visitor", <<"true">>)>>)>>
    ELSE <<>>

\* getId is named by a global uid-method annotation, and getUid with it
\* when a class defines it
UidMethodItem(roles) ==
    GlobalItem(<<Invocation("arvida-uid-method", <<"getId">>)>> \o
               (IF \E i \in DOMAIN roles : roles[i] = "getUid"
                THEN <<Invocation("arvida-uid-method", <<"getUid">>)>>
                ELSE <<>>))

HashOrders(n) == { [i \in 1..n |-> i], [i \in 1..n |-> n + 1 - i] }

HierarchyInit ==
    \E bases \in HierarchyBases, roles \in HierarchyRoles,
       order \in HashOrders(Len(HierarchyNames)) :
        /\ classes = [i \in DOMAIN HierarchyNames |->
                         Class(HierarchyNames[i], bases[i],
                               RoleMembers(roles[i]))]
        /\ env_annotations =
              <<UidMethodItem(roles)>> \o
              Flatten([i \in DOMAIN HierarchyNames |->
                          RoleItems(HierarchyNames[i], roles[i])])
        /\ hash_order = order

(* Triples: a class A with a field and two methods, carrying class-level   *)
(* triples and member-level triples on one member name, and a class B with *)
(* one class-level triple.                                                 *)

MaxMemberTriples == 2

TriplePool ==
    { <<"_:b1", "$this", "rdf:type">>,
      <<"$this", "ex:hasName", "$that">>,
      <<"$that", "ex:p", "$this">>,
      <<"$this", "ex:item", "$that.foreach">>,
      <<"_:b2", "http://x/p", "_:b1">>,
      <<"$this", "bad", "$that">>,
      <<"_:x://y", "a:b", "$this">>,
      <<"$that.element", "ex:p", "$that.item">> }

MemberTripleLists ==
    UNION {[1..n -> TriplePool] : n \in 0..MaxMemberTriples}

ClassTripleLists ==
    { <<>>,
      << <<"_:b1", "$this", "rdf:type">> >>,
      << <<"_:b2", "http://x/p", "_:b1">> >>,
      << <<"$this", "ex:hasName", "$that">> >>,
      << <<"_:b2", "http://x/p", "_:b1">>, <<"_:b1", "$this", "rdf:type">> >> }

\* the member name the member-level triples are declared on, and the
\* numbers of arguments of getName and setName
MemberShapes ==
    { <<"name", 0, 1>>, <<"getName", 0, 1>>, <<"getName", 1, 1>>,
      <<"getName", 2, 1>>, <<"setName", 0, 1>>, <<"setName", 0, 0>>,
      <<"nothere", 0, 1>> }

ClassStmts(triples) ==
    [i \in 1..Len(triples) |-> Invocation("arvida-class-stmt", triples[i])]

MemberStmts(target, triples) ==
    [i \in 1..Len(triples) |->
        Invocation("arvida-member-stmt", <<target>> \o triples[i])]

TriplesInit ==
    \E shape \in MemberShapes, class_triples \in ClassTripleLists,
       member_triples \in MemberTripleLists :
        /\ classes =
              << Class("A", <<>>, << Field("name"),
                                     Function("getName", shape[2]),
                                     Function("setName", shape[3]) >>),
                 Class("B", <<>>, <<>>) >>
        /\ env_annotations =
              << GlobalItem(<< Invocation("arvida-include", <<"x.h">>),
                               Invocation("arvida-prolog", <<"\"// p\"">>),
                               Invocation("arvida-epilog", <<"// e">>) >>),
                 ItemFor("A",
                     << Invocation("arvida-field-semantic",
                                   <<"name", "ex:name">>),
                        Invocation("arvida-member-path",
                                   <<"name", "{$this}/name">>) >>
                     \o ClassStmts(class_triples)
                     \o MemberStmts(shape[1], member_triples)),
                 ItemFor("B",
                     << Invocation("arvida-class-include", <<"<b.h>">>),
                        Invocation("arvida-class-stmt",
                                   <<"_:b2", "rdf:type", "$this">>) >>) >>
        /\ hash_order = <<1, 2>>

(* Members: a class M with a field, an overloaded method and a field of an  *)
(* anonymous union, and a class N : M without members.  One declaration of *)
(* M may carry a marker-attribute annotation, the class declaration an     *)
(* absolute path instead; M may be the target of an                        *)
(* AnnotatedItem whose invocations name members M has and a member it has  *)
(* not; a global uid-method annotation may name the method.                *)

MaxInvocations == 2

\* a public field of an anonymous struct or union of the class
AnonymousField(name) == [Field(name) EXCEPT !.anonymous = 1]

\* what get_annotations_from_cursor returned for a declaration
MarkerAnnotations(marked) ==
    IF marked THEN [k \in {"semantic"} |-> <<TupleEntry(<<"ex:T">>)>>]
    ELSE EmptyDict

\* "path": the class declaration carries an absolute-path annotation
Markers == {"none", "class", "x", "getX", "u", "path"}

AbsolutePathMarker ==
    [k \in {"absolute-path"} |-> <<TupleEntry(<<"/abs/{$this}">>)>>]

MissingMemberInvocations ==
    { Invocation("arvida-field-semantic", <<"nothere", "ex:n">>),
      Invocation("arvida-member-semantic", <<"nothere", "ex:n">>),
      Invocation("arvida-annotate-member", <<"nothere", "key", "v">>),
      Invocation("arvida-member-stmt",
                 <<"nothere", "$this", "ex:p", "$that">>),
      Invocation("arvida-member-path", <<"nothere", "/p">>),
      Invocation("arvida-member-absolute-path", <<"nothere", "/p">>),
      Invocation("arvida-member-create-element", <<"nothere", "e">>) }

MemberInvocations ==
    MissingMemberInvocations \cup
    { Invocation("arvida-member-semantic", <<"getX", "ex:x">>),
      Invocation("arvida-field-semantic", <<"u", "ex:u">>),
      Invocation("arvida-class-include", <<"m.h">>) }

\* the AnnotatedItems targeting M: none, or one with up to MaxInvocations
MemberItems ==
    { <<>> } \cup
    { <<ItemFor("M", invocations)>> :
        invocations \in UNION {[1..n -> MemberInvocations] :
                                  n \in 0..MaxInvocations} }

MembersInit ==
    \E marker \in Markers, items \in MemberItems, uid \in BOOLEAN :
        /\ classes =
              << Class("M", <<>>, << Field("x"), Function("getX", 0),
                                     Function("getX", 1),
                                     AnonymousField("u") >>),
                 Class("N", <<"M">>, <<>>) >>
        /\ env_annotations =
              (IF uid
               THEN <<GlobalItem(<<Invocation("arvida-uid-method",
                                              <<"getX">>)>>)>>
               ELSE <<>>) \o items
        /\ hash_order = <<1, 2>>
        /\ cls_annotations =
              << IF marker = "path" THEN AbsolutePathMarker
                 ELSE MarkerAnnotations(marker = "class"),
                 EmptyDict >>
        /\ member_annotations =
              << [i \in DOMAIN classes[1].members |->
                     MarkerAnnotations(classes[1].members[i].name = marker)],
                 <<>> >>

\* no declaration carries a marker-attribute annotation
NoMarkers ==
    /\ cls_annotations = [c \in DOMAIN classes |-> EmptyDict]
    /\ member_annotations =
          [c \in DOMAIN classes |->
              [i \in DOMAIN classes[c].members |-> EmptyDict]]

\* a class before process_environment has set anything on it
Unset == <<>>
Set(x) == <<x>>

NoAttrs ==
    [use_visitor |-> Unset, use_visitor_top_class |-> Unset,
     path_type |-> Unset, uid_method |-> Unset,
     path |-> Unset, unquoted_path |-> Unset, pp_path |-> Unset,
     blank_id |-> Unset, blanks |-> Unset, mtcs |-> Unset,
     reader |-> Unset, writer |-> Unset, has_element_refs |-> Unset]

NoText == [prolog |-> <<>>, epilog |-> <<>>, includes |-> <<>>]

EnvInit ==
    /\ \/ HierarchyInit /\ NoMarkers
       \/ TriplesInit /\ NoMarkers
       \/ MembersInit
    /\ namespaces = 0
    /\ global_annotations = EmptyDict
    /\ annotated_classes = <<>>
    /\ annotated_base_classes = [c \in DOMAIN classes |-> {}]
    /\ annotated_sub_classes = [c \in DOMAIN classes |-> {}]
    /\ env_text = NoText
    /\ cls_attrs = [c \in DOMAIN classes |-> NoAttrs]
    /\ uid_visits = <<>>
    /\ visitor_visits = <<>>
    /\ raised = None
    /\ runs = 0
    /\ env_pc = "parsed"

-----------------------------------------------------------------------------
(* Environment.build_index *)

\* add_annotation(key, entry) on each of the members found
AddToMembers(annos, c, found, key, entry) ==
    [annos EXCEPT ![c] =
        [i \in DOMAIN annos[c] |->
            IF i \in Range(found) THEN DictAppend(annos[c][i], key, entry)
            ELSE annos[c][i]]]

\* One global invocation: include, prolog, epilog and uid-method are kept.
BindGlobal(glob, ga) ==
    IF ga.name = Some("arvida-include")
    THEN DictAppend(glob, "include", StrEntry(str(ga.params[1])))
    ELSE IF ga.name = Some("arvida-prolog")
    THEN DictAppend(glob, "prolog", StrEntry(str(ga.params[1])))
    ELSE IF ga.name = Some("arvida-epilog")
    THEN DictAppend(glob, "epilog", StrEntry(str(ga.params[1])))
    ELSE IF ga.name = Some("arvida-uid-method")
    THEN DictAppend(glob, "uid-method", StrEntry(str(ga.params[1])))
    ELSE glob

\* One invocation on class c.  ix holds the class and member annotations.
BindToClass(ix, c, ca) ==
    LET p(n) == str(ca.params[n])
        OnClass(key, entry) ==
            [ix EXCEPT !.cls = [@ EXCEPT ![c] = DictAppend(@, key, entry)]]
        OnMembers(found, key, entry) ==
            [ix EXCEPT !.member = AddToMembers(@, c, found, key, entry)]
        RECURSIVE Semantics(_, _)
        Semantics(annos, n) ==
            IF n > Len(ca.params) THEN annos
            ELSE Semantics(DictAppend(annos, "semantic", StrEntry(p(n))),
                           n + 1)
    IN  IF ca.name = Some("arvida-object-semantic")
        THEN [ix EXCEPT !.cls = [@ EXCEPT ![c] = Semantics(@, 1)]]
        ELSE IF ca.name = Some("arvida-field-semantic")
        THEN LET field == find_field(c, p(1))
             IN  IF IsNone(field) THEN ix
                 ELSE OnMembers(field, "semantic", StrEntry(p(2)))
        ELSE IF ca.name = Some("arvida-member-semantic")
        THEN OnMembers(find_members(c, p(1)), "semantic", StrEntry(p(2)))
        ELSE IF ca.name = Some("arvida-annotate-member")
        THEN OnMembers(find_members(c, p(1)), p(2), StrEntry(p(3)))
        ELSE IF ca.name = Some("arvida-class-stmt")
        THEN OnClass("triple", TupleEntry(<<p(1), p(2), p(3)>>))
        ELSE IF ca.name = Some("arvida-class-include")
        THEN OnClass("include", StrEntry(p(1)))
        ELSE IF ca.name = Some("arvida-class-use-visitor")
        THEN OnClass("use-visitor", StrEntry(p(1)))
        ELSE IF ca.name = Some("arvida-member-stmt")
        THEN OnMembers(find_members(c, p(1)), "triple",
                       TupleEntry(<<p(2), p(3), p(4)>>))
        ELSE IF ca.name = Some("arvida-member-path")
        THEN OnMembers(find_members(c, p(1)), "path", StrEntry(p(2)))
        ELSE IF ca.name = Some("arvida-member-absolute-path")
        THEN OnMembers(find_members(c, p(1)), "absolute-path",
                       StrEntry(p(2)))
        ELSE IF ca.name = Some("arvida-member-create-element")
        THEN OnMembers(find_members(c, p(1)), "create-element",
                       StrEntry(p(2)))
        ELSE ix

\* AnnotatedItem.full_name
full_name(a) == IF IsNone(a.item) THEN "" ELSE str(The(a.item))

\* The body of "for a in self.annotations" for one AnnotatedItem.
RECURSIVE BindGlobals(_, _, _), BindInvocations(_, _, _, _)
BindGlobals(glob, invocations, n) ==
    IF n > Len(invocations) THEN glob
    ELSE BindGlobals(BindGlobal(glob, invocations[n]), invocations, n + 1)

BindInvocations(ix, c, invocations, n) ==
    IF n > Len(invocations) THEN ix
    ELSE BindInvocations(BindToClass(ix, c, invocations[n]), c,
                         invocations, n + 1)

BindItem(ix, a) ==
    LET cls == name_to_class_map(full_name(a))
        Bound(ix1) ==
            IF IsNone(cls) THEN ix1
            ELSE BindInvocations(
                     [ix1 EXCEPT !.annotated = OrderedAdd(@, The(cls))],
                     The(cls), a.annotations, 1)
    IN  Bound(IF IsNone(a.item)
              THEN [ix EXCEPT !.glob = BindGlobals(@, a.annotations, 1)]
              ELSE ix)

RECURSIVE BindItems(_, _)
BindItems(ix, n) ==
    IF n > Len(env_annotations) THEN ix
    ELSE BindItems(BindItem(ix, env_annotations[n]), n + 1)

\* "for method_name in ...: for cls in self.classes": a class defining the
\* method gets the 'uid-method' annotation and becomes annotated.
RECURSIVE BindUidMethods(_, _, _)
BindUidMethods(ix, methods, c) ==
    IF methods = <<>> THEN ix
    ELSE IF c > Len(classes) THEN BindUidMethods(ix, Tail(methods), 1)
    ELSE LET method_name == Head(methods).v[1]
         IN  BindUidMethods(
                 IF find_functions(c, method_name) # <<>>
                 THEN [ix EXCEPT
                          !.cls = [@ EXCEPT ![c] =
                              DictAppend(@, "uid-method",
                                         StrEntry(method_name))],
                          !.annotated = OrderedAdd(@, c)]
                 ELSE ix,
                 methods, c + 1)

\* the base classes of c that the environment knows
KnownBases(c) ==
    {The(name_to_class_map(classes[c].bases[i])) :
        i \in {j \in DOMAIN classes[c].bases :
                  ~IsNone(name_to_class_map(classes[c].bases[j]))}}

\* extend for a tuple, append for anything else
FlatValues(entries) == Flatten([i \in DOMAIN entries |-> entries[i].v])

QuoteInclude(i) ==
    IF ~startswith(i, "\"") /\ ~startswith(i, "<") THEN "\"" \o i \o "\""
    ELSE i

BuildIndex ==
    /\ env_pc = "parsed"
    /\ namespaces = 0
    /\ \E bound \in {BindItems([glob |-> global_annotations,
                                cls |-> cls_annotations,
                                member |-> member_annotations,
                                annotated |-> SelectSeq(Indices(classes),
                                                        has_annotations)],
                               1)} :
       \E done \in {BindUidMethods(bound,
                        get_or(bound.glob, "uid-method", <<>>), 1)} :
       LET isAnnotated(c) == c \in Range(done.annotated)
           all_includes ==
               FlatValues(get_or(done.glob, "include", <<>>)) \o
               Flatten([k \in DOMAIN done.annotated |->
                   FlatValues(get_or(done.cls[done.annotated[k]],
                                     "include", <<>>))])
       IN  /\ global_annotations' = done.glob
           /\ cls_annotations' = done.cls
           /\ member_annotations' = done.member
           /\ annotated_classes' = done.annotated
           /\ annotated_base_classes' =
                 [c \in DOMAIN classes |->
                     annotated_base_classes[c] \cup
                     {b \in KnownBases(c) : isAnnotated(b)}]
           /\ annotated_sub_classes' =
                 [b \in DOMAIN classes |->
                     annotated_sub_classes[b] \cup
                     {c \in DOMAIN classes :
                         b \in KnownBases(c) /\ isAnnotated(c)}]
           /\ env_text' =
                 [prolog |->
                     LET l == FlatValues(get_or(done.glob, "prolog", <<>>))
                     IN  [i \in DOMAIN l |-> unquote_string_literal(l[i])],
                  epilog |->
                     LET l == FlatValues(get_or(done.glob, "epilog", <<>>))
                     IN  [i \in DOMAIN l |-> unquote_string_literal(l[i])],
                  includes |->
                     [i \in DOMAIN all_includes |->
                         QuoteInclude(all_includes[i])]]
    /\ env_pc' = "indexed"
    /\ UNCHANGED <<namespaces, classes, env_annotations, hash_order,
                   cls_attrs, uid_visits, visitor_visits, raised, runs>>
    /\ UNCHANGED notEnvVars

-----------------------------------------------------------------------------
(* TemplateProcessor.process_environment: propagation *)

MaxRuns == 2

ABSOLUTE_PATH == "ABSOLUTE_PATH"
RELATIVE_PATH == "RELATIVE_PATH"
RELATIVE_TO_BASE_PATH == "RELATIVE_TO_BASE_PATH"
NO_PATH == "NO_PATH"

\* the class takes every value it is offered, whatever it has
TakesWhenOffered(own, annotation_value) ==
    IsNone(own) \/ ~IsNone(annotation_value)

\* "if cls_annotation_value is None": the class has no value of its own
TakesOffered(own, annotation_value) == IsNone(own)

\* the first value is stored under 'path' instead of the name given
AddAllAsPath(annos, name, values) ==
    IF values = <<>> THEN annos ELSE DictAppend(annos, "path", Head(values))

\* cls.add_annotation(name, i) for i in values
RECURSIVE AddAll(_, _, _)
AddAll(annos, name, values) ==
    IF values = <<>> THEN annos
    ELSE AddAll(DictAppend(annos, name, Head(values)), name, Tail(values))

\* st.ann: the annotations of every class; st.visits: the classes entered,
\* each with the value it was offered
RECURSIVE propagate_annotation(_, _, _, _), PropagateToSubs(_, _, _, _)
propagate_annotation(st, c, name, annotation_value) ==
    LET own == get(st.ann[c], name)
        takes == TakesOffered(own, annotation_value)
        cls_annotation_value == IF takes THEN annotation_value ELSE own
        st1 == [st EXCEPT
                   !.ann = IF takes /\ ~IsNone(annotation_value)
                           THEN [@ EXCEPT ![c] =
                                    AddAll(@, name,
                                           The(annotation_value))]
                           ELSE @,
                   !.visits = Append(@, [cls |-> c,
                                         offered |-> annotation_value])]
    IN  IF ~IsNone(cls_annotation_value) /\ The(cls_annotation_value) # <<>>
        THEN PropagateToSubs(st1, SetOrder(annotated_sub_classes[c]),
                             name, cls_annotation_value)
        ELSE st1

PropagateToSubs(st, subs, name, annotation_value) ==
    IF subs = <<>> THEN st
    ELSE PropagateToSubs(
             propagate_annotation(st, Head(subs), name,
                                  annotation_value),
             Tail(subs), name, annotation_value)

\* "for cls in environment.classes: propagate_annotation(cls, 'uid-method',
\* None)"; st.log keeps the classes entered by each start
RECURSIVE PropagateUidMethods(_, _)
PropagateUidMethods(st, c) ==
    IF c > Len(classes) THEN st
    ELSE LET Logged(r) == [r EXCEPT !.log = Append(@, r.visits)]
         IN  PropagateUidMethods(
                 Logged(propagate_annotation([st EXCEPT !.visits = <<>>], c,
                                             "uid-method", None)),
                 c + 1)

\* the flag goes to the subclasses only
RECURSIVE propagate_use_visitor_down(_, _)
propagate_use_visitor_down(st, c) ==
    IF c \in st.use_visitor_classes THEN st
    ELSE LET top == annotated_base_classes[c] = {}
             RECURSIVE Down(_, _)
             Down(st1, cs) ==
                 IF cs = <<>> THEN st1
                 ELSE Down(propagate_use_visitor_down(st1, Head(cs)),
                           Tail(cs))
         IN  Down([st EXCEPT
                      !.use_visitor_classes = @ \cup {c},
                      !.attrs = [@ EXCEPT
                          ![c].use_visitor = Set(TRUE),
                          ![c].use_visitor_top_class = Set(top)],
                      !.visits = Append(@, c)],
                  SetOrder(annotated_sub_classes[c]))

\* the flag goes to the base classes only
RECURSIVE propagate_use_visitor_up(_, _)
propagate_use_visitor_up(st, c) ==
    IF c \in st.use_visitor_classes THEN st
    ELSE LET top == annotated_base_classes[c] = {}
             RECURSIVE Up(_, _)
             Up(st1, cs) ==
                 IF cs = <<>> THEN st1
                 ELSE Up(propagate_use_visitor_up(st1, Head(cs)), Tail(cs))
         IN  Up([st EXCEPT
                    !.use_visitor_classes = @ \cup {c},
                    !.attrs = [@ EXCEPT
                        ![c].use_visitor = Set(TRUE),
                        ![c].use_visitor_top_class = Set(top)],
                    !.visits = Append(@, c)],
                SetOrder(annotated_base_classes[c]))

\* st.attrs: what is set on every class; st.use_visitor_classes: the
\* visited set; st.visits: the classes marked
RECURSIVE propagate_use_visitor(_, _), PropagateUseVisitorTo(_, _)
propagate_use_visitor(st, c) ==
    IF c \in st.use_visitor_classes THEN st
    ELSE LET top == annotated_base_classes[c] = {}
             st1 == [st EXCEPT
                        !.use_visitor_classes = @ \cup {c},
                        !.attrs = [@ EXCEPT
                            ![c].use_visitor = Set(TRUE),
                            ![c].use_visitor_top_class = Set(top)],
                        !.visits = Append(@, c)]
             st2 == IF top THEN st1
                    ELSE PropagateUseVisitorTo(st1,
                             SetOrder(annotated_base_classes[c]))
         IN  PropagateUseVisitorTo(st2, SetOrder(annotated_sub_classes[c]))

PropagateUseVisitorTo(st, cs) ==
    IF cs = <<>> THEN st
    ELSE PropagateUseVisitorTo(propagate_use_visitor(st, Head(cs)), Tail(cs))

\* "for cls in environment.annotated_classes" of the use-visitor step
RECURSIVE ProcessUseVisitor(_, _, _)
ProcessUseVisitor(st, ann, n) ==
    IF n > Len(annotated_classes) THEN st
    ELSE LET c == annotated_classes[n]
             Logged(r) == [r EXCEPT !.log = Append(@, r.visits)]
         IN  ProcessUseVisitor(
                 IF ~IsNone(get(ann[c], "use-visitor"))
                 THEN Logged(propagate_use_visitor(
                                 [st EXCEPT !.visits = <<>>], c))
                 ELSE IF st.attrs[c].use_visitor = Unset
                 THEN [st EXCEPT !.attrs = [@ EXCEPT
                                     ![c].use_visitor = Set(FALSE)]]
                 ELSE st,
                 ann, n + 1)

\* the absolute paths are not looked at
ProcessClassPathRelative(a, annos) ==
    LET paths == get_or(annos, "path", <<>>)
        uid_method == get(annos, "uid-method")
        Assigned(r) ==
            [a EXCEPT
                !.path_type = Set(IF ~IsNone(uid_method) THEN ABSOLUTE_PATH
                                  ELSE RELATIVE_PATH),
                !.uid_method = Set(uid_method),
                !.path = Set(r.path),
                !.unquoted_path = Set(r.unquoted_path),
                !.pp_path = Set(r.pp_path)]
    IN  Assigned(process_path_annotation(paths, CLASS_PATH_SUBST_LIST))

\* "Process per class path annotation", for one annotated class
ProcessClassPath(a, annos) ==
    LET paths == get_or(annos, "path", <<>>)
        absolute_paths == get_or(annos, "absolute-path", <<>>)
        uid_method == get(annos, "uid-method")
        Assigned(r) ==
            [a EXCEPT
                !.path_type = Set(IF absolute_paths # <<>> THEN ABSOLUTE_PATH
                                  ELSE IF ~IsNone(uid_method)
                                  THEN ABSOLUTE_PATH
                                  ELSE RELATIVE_PATH),
                !.uid_method = Set(IF absolute_paths = <<>> THEN uid_method
                                   ELSE None),
                !.path = Set(r.path),
                !.unquoted_path = Set(r.unquoted_path),
                !.pp_path = Set(r.pp_path)]
    IN  Assigned(process_path_annotation(
                     IF absolute_paths # <<>> THEN absolute_paths ELSE paths,
                     CLASS_PATH_SUBST_LIST))

\* the accessor is recorded and the path kind left as it was
ProcessUidMethodOnly(a, annos) ==
    LET uid_method == get(annos, "uid-method")
    IN  IF ~IsNone(uid_method) THEN [a EXCEPT !.uid_method = Set(uid_method)]
        ELSE a

\* "Process uid-method", for one annotated class
ProcessUidMethod(a, annos) ==
    LET uid_method == get(annos, "uid-method")
    IN  IF ~IsNone(uid_method)
        THEN [a EXCEPT !.uid_method = Set(uid_method),
                       !.path_type = Set(RELATIVE_TO_BASE_PATH)]
        ELSE a

-----------------------------------------------------------------------------
(* TemplateProcessor.process_environment: triples *)

THAT_ELEMENT_NAMES == {"$that.foreach", "$that.element", "$that.item"}

BlankData(label, var_name) == [label |-> label, var_name |-> var_name]

Blank(data) ==
    [kind |-> "blank", label |-> data.label, var_name |-> data.var_name]

IRI(value) == [kind |-> "iri", value |-> value]

PrefixedName(value) ==
    LET unquoted_value == unquote_string_literal(value)
        prefix_pos == find(unquoted_value, ":")
    IN  [kind |-> "prefixed_name", value |-> value,
         prefix |-> IF prefix_pos < 0 THEN ""
                    ELSE quote_string_literal(
                             SubSeq(unquoted_value, 1, prefix_pos)),
         local_part |-> IF prefix_pos < 0 THEN ""
                        ELSE quote_string_literal(
                                 DropFirst(unquoted_value, prefix_pos + 1))]

\* Value(value, parent, meta_var) for the class c itself (m = 0) or for its
\* member m; annos are the annotations of that class or member
Value(c, m, annos, meta_var) ==
    LET paths == get_or(annos, "path", <<>>)
        absolute_paths == get_or(annos, "absolute-path", <<>>)
        Node(r) ==
            [kind |-> "value", cls |-> c, member |-> m,
             meta_var |-> meta_var,
             container |-> meta_var \in THAT_ELEMENT_NAMES,
             absolute_path |-> absolute_paths # <<>>,
             path |-> r.path, unquoted_path |-> r.unquoted_path,
             pp_path |-> r.pp_path,
             getter |-> IF m = 0 THEN FALSE
                        ELSE is_getter(classes[c].members[m]),
             setter |-> IF m = 0 THEN FALSE
                        ELSE is_setter(classes[c].members[m])]
    IN  Node(process_path_annotation(
                 IF absolute_paths # <<>> THEN absolute_paths ELSE paths,
                 DEFAULT_PATH_SUBST_LIST))

is_blank_node(v) == v.kind = "blank"
is_iri_node(v) == v.kind = "iri"
is_prefixed_name(v) == v.kind = "prefixed_name"
is_value_node(v) == v.kind = "value"
is_this_ref(v) == is_value_node(v) /\ v.meta_var = "$this"
is_that_ref(v) == is_value_node(v) /\ v.meta_var = "$that"
is_that_element_ref(v) == is_value_node(v) /\ v.container

\* every use of a label makes a new name
create_blank_always(cs, elem) ==
    LET data == BlankData(elem, "_b" \o str_of_int(cs.blank_id))
    IN  [cs |-> [blank_id |-> cs.blank_id + 1,
                 blanks |-> Append(cs.blanks, data)],
         node |-> Blank(data)]

\* create_blank: cs is cls.blank_id and cls.blanks, in insertion order
create_blank(cs, elem) ==
    LET known == {i \in DOMAIN cs.blanks : cs.blanks[i].label = elem}
    IN  IF known = {}
        THEN LET data == BlankData(elem, "_b" \o str_of_int(cs.blank_id))
             IN  [cs |-> [blank_id |-> cs.blank_id + 1,
                          blanks |-> Append(cs.blanks, data)],
                  node |-> Blank(data)]
        ELSE [cs |-> cs, node |-> Blank(cs.blanks[CHOOSE i \in known : TRUE])]

\* the '://' test made before the '_:' test
CreateNodeIriFirst(cs, ann, c, m, elem) ==
    IF contains(elem, "://")
    THEN [cs |-> cs, node |-> Some(IRI(elem)), err |-> None]
    ELSE IF startswith(elem, "_:")
    THEN LET Created(b) == [cs |-> b.cs, node |-> Some(b.node), err |-> None]
         IN  Created(create_blank(cs, elem))
    ELSE IF elem = "$this"
    THEN [cs |-> cs, node |-> Some(Value(c, 0, ann[c], elem)), err |-> None]
    ELSE IF elem = "$that" \/ elem \in THAT_ELEMENT_NAMES
    THEN IF m = 0
         THEN [cs |-> cs, node |-> None,
               err |-> Some("Per class triple annotation cannot refer to "
                            \o elem)]
         ELSE [cs |-> cs,
               node |-> Some(Value(c, m, member_annotations[c][m], elem)),
               err |-> None]
    ELSE IF contains(elem, ":")
    THEN [cs |-> cs, node |-> Some(PrefixedName(elem)), err |-> None]
    ELSE [cs |-> cs, node |-> None,
          err |-> Some("Unknown element in triple annotation: " \o elem)]

\* One element of create_triple, for class c and member m (0: no member).
CreateNode(cs, ann, c, m, elem) ==
    IF startswith(elem, "_:")
    THEN LET Created(b) == [cs |-> b.cs, node |-> Some(b.node), err |-> None]
         IN  Created(create_blank(cs, elem))
    ELSE IF elem = "$this"
    THEN [cs |-> cs, node |-> Some(Value(c, 0, ann[c], elem)), err |-> None]
    ELSE IF elem = "$that" \/ elem \in THAT_ELEMENT_NAMES
    THEN IF m = 0
         THEN [cs |-> cs, node |-> None,
               err |-> Some("Per class triple annotation cannot refer to "
                            \o elem)]
         ELSE [cs |-> cs,
               node |-> Some(Value(c, m, member_annotations[c][m], elem)),
               err |-> None]
    ELSE IF contains(elem, "://")
    THEN [cs |-> cs, node |-> Some(IRI(elem)), err |-> None]
    ELSE IF contains(elem, ":")
    THEN [cs |-> cs, node |-> Some(PrefixedName(elem)), err |-> None]
    ELSE [cs |-> cs, node |-> None,
          err |-> Some("Unknown element in triple annotation: " \o elem)]

\* create_triple: the elements in order, up to the first that raises
RECURSIVE CreateNodes(_, _, _, _, _, _)
CreateNodes(st, ann, c, m, triple, index) ==
    IF index > Len(triple) \/ ~IsNone(st.err) THEN st
    ELSE LET Placed(r) == [cs |-> r.cs,
                           triple |-> IF IsNone(r.node) THEN st.triple
                                      ELSE Append(st.triple, The(r.node)),
                           err |-> r.err]
         IN  CreateNodes(Placed(CreateNode(st.cs, ann, c, m, triple[index])),
                         ann, c, m, triple, index + 1)

create_triple(cs, ann, c, m, triple) ==
    CreateNodes([cs |-> cs, triple |-> <<>>, err |-> None],
                ann, c, m, triple, 1)

is_emptystring(s) == s = "" \/ s = "\"\""

\* MemberTripleContainer(member, class_) for member m of c (0: no member)
MemberTripleContainer(c, m) ==
    IF m = 0
    THEN [member |-> 0, triples |-> <<>>, member_triples |-> <<>>,
          member_element_triples |-> <<>>,
          path_type |-> Unset, path |-> None, unquoted_path |-> None,
          pp_path |-> None,
          element_path_type |-> Unset, element_path |-> None,
          unquoted_element_path |-> None, pp_element_path |-> None,
          getter |-> FALSE, setter |-> FALSE]
    ELSE LET annos == member_annotations[c][m]
             absolute_paths == get_or(annos, "absolute-path", <<>>)
             paths == IF absolute_paths # <<>> THEN absolute_paths
                      ELSE get_or(annos, "path", <<>>)
             absolute_element_paths ==
                 get_or(annos, "absolute-element-path", absolute_paths)
             element_paths ==
                 IF absolute_element_paths # <<>> THEN absolute_element_paths
                 ELSE get_or(annos, "element-path", paths)
             Container(r, e) ==
                 [member |-> m, triples |-> <<>>, member_triples |-> <<>>,
                  member_element_triples |-> <<>>,
                  path_type |-> Set(IF is_emptystring(r.pp_path) THEN NO_PATH
                                    ELSE IF absolute_paths # <<>>
                                    THEN ABSOLUTE_PATH
                                    ELSE RELATIVE_PATH),
                  path |-> r.path, unquoted_path |-> r.unquoted_path,
                  pp_path |-> Some(r.pp_path),
                  element_path_type |->
                      Set(IF is_emptystring(e.pp_path) THEN NO_PATH
                          ELSE IF absolute_element_paths # <<>>
                          THEN ABSOLUTE_PATH
                          ELSE RELATIVE_PATH),
                  element_path |-> e.path,
                  unquoted_element_path |-> e.unquoted_path,
                  pp_element_path |-> Some(e.pp_path),
                  getter |-> is_getter(classes[c].members[m]),
                  setter |-> is_setter(classes[c].members[m])]
         IN  Container(
                 process_path_annotation(paths, DEFAULT_PATH_SUBST_LIST),
                 process_path_annotation(element_paths,
                                         DEFAULT_PATH_SUBST_LIST))

\* MemberTripleContainer.is_for_reader, .is_for_writer
is_for_reader(mtc) == mtc.member = 0 \/ mtc.setter
is_for_writer(mtc) == mtc.member = 0 \/ mtc.getter

\* every node weighs the same
node_value_flat(v) == 1

node_value(v) ==
    IF is_this_ref(v) THEN 1
    ELSE IF is_that_ref(v) THEN 10
    ELSE IF is_that_element_ref(v) THEN 100
    ELSE IF is_iri_node(v) \/ is_prefixed_name(v) THEN 1000
    ELSE IF is_blank_node(v) THEN 10000
    ELSE 100000

\* cmp_triple(x, y): negative, zero or positive
cmp_triple(x, y) ==
    LET x_value == node_value(x[1]) + node_value(x[2]) + node_value(x[3])
        y_value == node_value(y[1]) + node_value(y[2]) + node_value(y[3])
    IN  IF x_value < y_value THEN -1 ELSE IF x_value > y_value THEN 1 ELSE 0

\* an insertion that puts a triple before the ones it ties with
RECURSIVE InsertBeforeTies(_, _)
InsertBeforeTies(done, x) ==
    IF done = <<>> THEN <<x>>
    ELSE IF cmp_triple(done[Len(done)], x) < 0 THEN Append(done, x)
    ELSE Append(InsertBeforeTies(SubSeq(done, 1, Len(done) - 1), x),
                done[Len(done)])

\* sorted(triples, cmp=cmp_triple): a stable sort
RECURSIVE InsertSorted(_, _)
InsertSorted(done, x) ==
    IF done = <<>> THEN <<x>>
    ELSE IF cmp_triple(done[Len(done)], x) <= 0 THEN Append(done, x)
    ELSE Append(InsertSorted(SubSeq(done, 1, Len(done) - 1), x),
                done[Len(done)])

RECURSIVE sorted(_)
sorted(triples) ==
    IF triples = <<>> THEN <<>>
    ELSE InsertSorted(sorted(SubSeq(triples, 1, Len(triples) - 1)),
                      triples[Len(triples)])

has_that_element_ref(triple) ==
    \E i \in DOMAIN triple : is_that_element_ref(triple[i])

\* MemberTripleContainer.process_triples
process_triples(mtc) ==
    LET Split(triples) ==
            [mtc EXCEPT
                !.member_triples =
                    SelectSeq(triples, LAMBDA t : ~has_that_element_ref(t)),
                !.member_element_triples =
                    SelectSeq(triples, has_that_element_ref)]
    IN  Split(sorted(mtc.triples))

\* "cls.blank_id = 0; cls.blanks = OrderedDict()"
FreshBlanks == [blank_id |-> 0, blanks |-> <<>>]

\* The triples of one container, up to the first that raises.
RECURSIVE CreateTriples(_, _, _, _, _, _)
CreateTriples(st, ann, c, m, triple_annotations, n) ==
    IF n > Len(triple_annotations) \/ ~IsNone(st.err) THEN st
    ELSE LET Added(r) == [cs |-> r.cs,
                          triples |-> IF IsNone(r.err)
                                      THEN Append(st.triples, r.triple)
                                      ELSE st.triples,
                          err |-> r.err]
         IN  CreateTriples(
                 Added(create_triple(st.cs, ann, c, m,
                                     triple_annotations[n].v)),
                 ann, c, m, triple_annotations, n + 1)

\* The containers of class c: the class-level one (0) and one for each
\* member in ms, up to the first triple that raises.
RECURSIVE CreateContainers(_, _, _, _)
CreateContainers(st, ann, c, ms) ==
    IF ms = <<>> \/ ~IsNone(st.err) THEN st
    ELSE LET m == Head(ms)
             triple_annotations ==
                 IF m = 0 THEN get_or(ann[c], "triple", <<>>)
                 ELSE get_or(member_annotations[c][m], "triple", <<>>)
             Filled(r) ==
                 [cs |-> r.cs,
                  all_mtcs |-> Append(st.all_mtcs,
                                  [MemberTripleContainer(c, m) EXCEPT
                                      !.triples = r.triples]),
                  err |-> r.err]
         IN  CreateContainers(
                 Filled(CreateTriples([cs |-> st.cs, triples |-> <<>>,
                                       err |-> None],
                                      ann, c, m, triple_annotations, 1)),
                 ann, c, Tail(ms))

\* "Process triples", for one annotated class with attributes a
ProcessClassTriples(a, ann, c) ==
    LET ms == (IF get_or(ann[c], "triple", <<>>) # <<>> THEN <<0>>
               ELSE <<>>) \o
              SelectSeq(Indices(classes[c].members),
                  LAMBDA m : get_or(member_annotations[c][m],
                                    "triple", <<>>) # <<>>)
        Finished(begun_cls, mtcs) ==
            [begun_cls EXCEPT
                !.mtcs = Set(mtcs),
                !.reader = Set("READER_MODE"),
                !.writer = Set("WRITER_MODE"),
                !.has_element_refs =
                    Set(\E i \in DOMAIN mtcs :
                           mtcs[i].member_element_triples # <<>>)]
        Outcome(r) ==
            [attrs |->
                IF ~IsNone(r.err)
                THEN [a EXCEPT !.blank_id = Set(r.cs.blank_id),
                               !.blanks = Set(r.cs.blanks)]
                ELSE Finished([a EXCEPT !.blank_id = Set(r.cs.blank_id),
                                        !.blanks = Set(r.cs.blanks)],
                              [i \in DOMAIN r.all_mtcs |->
                                  process_triples(r.all_mtcs[i])]),
             err |-> r.err]
    IN  Outcome(CreateContainers([cs |-> FreshBlanks, all_mtcs |-> <<>>,
                                  err |-> None], ann, c, ms))

\* the Exception of a class is swallowed and the loop goes on
RECURSIVE ProcessTriplesSilently(_, _, _)
ProcessTriplesSilently(st, ann, n) ==
    IF n > Len(annotated_classes) THEN st
    ELSE LET c == annotated_classes[n]
             Stored(r) == [attrs |-> [st.attrs EXCEPT ![c] = r.attrs],
                           err |-> None]
         IN  ProcessTriplesSilently(
                 Stored(ProcessClassTriples(st.attrs[c], ann, c)), ann, n + 1)

\* "for cls in environment.annotated_classes" of the triples step
RECURSIVE ProcessTriples(_, _, _)
ProcessTriples(st, ann, n) ==
    IF n > Len(annotated_classes) \/ ~IsNone(st.err) THEN st
    ELSE LET c == annotated_classes[n]
             Stored(r) == [attrs |-> [st.attrs EXCEPT ![c] = r.attrs],
                           err |-> r.err]
         IN  ProcessTriples(Stored(ProcessClassTriples(st.attrs[c], ann, c)),
                            ann, n + 1)

ProcessEnvironment ==
    /\ env_pc \in {"indexed", "processed"}
    /\ runs < MaxRuns
    /\ \E uid \in {PropagateUidMethods([ann |-> cls_annotations,
                                         visits |-> <<>>, log |-> <<>>],
                                        1)} :
       \E visitor \in {ProcessUseVisitor([attrs |-> cls_attrs,
                                           use_visitor_classes |-> {},
                                           visits |-> <<>>, log |-> <<>>],
                                          uid.ann, 1)} :
       \* the path step and the uid-method step touch one class each
       \E pathed \in {[c \in DOMAIN classes |->
                         IF c \in Range(annotated_classes)
                         THEN ProcessUidMethod(
                                  ProcessClassPath(visitor.attrs[c],
                                                   uid.ann[c]),
                                  uid.ann[c])
                         ELSE visitor.attrs[c]]} :
       \E triples \in {ProcessTriples([attrs |-> pathed, err |-> None],
                                       uid.ann, 1)} :
           /\ cls_annotations' = uid.ann
           /\ uid_visits' = uid.log
           /\ visitor_visits' = visitor.log
           /\ cls_attrs' = triples.attrs
           /\ raised' = triples.err
    /\ runs' = runs + 1
    /\ env_pc' = "processed"
    /\ UNCHANGED <<namespaces, classes, env_annotations, hash_order,
                   global_annotations, annotated_classes, member_annotations,
                   annotated_base_classes, annotated_sub_classes, env_text>>
    /\ UNCHANGED notEnvVars

EnvNext ==
    \/ BuildIndex
    \/ ProcessEnvironment

InitEnv ==
    /\ EnvInit
    /\ DecIdle
    /\ CallIdle
    /\ TypeIdle
    /\ PathIdle
    /\ NameIdle
    /\ WrapIdle

SpecEnv == InitEnv /\ [][EnvNext]_vars

-----------------------------------------------------------------------------
(* Claims about the triples of process_environment *)

Processed == env_pc = "processed"

Annotated(c) == \E n \in DOMAIN annotated_classes : annotated_classes[n] = c

\* the class was processed to the end by the last call
Completed(c) == Annotated(c) /\ cls_attrs[c].mtcs # Unset

\* the triple annotations of class c in the order they are used: the
\* class-level ones, then those of each member in member order
DeclaredTriples(c) ==
    (IF "triple" \in DOMAIN cls_annotations[c]
     THEN [i \in DOMAIN cls_annotations[c]["triple"] |->
              cls_annotations[c]["triple"][i].v]
     ELSE <<>>) \o
    Flatten([m \in DOMAIN classes[c].members |->
        IF "triple" \in DOMAIN member_annotations[c][m]
        THEN [i \in DOMAIN member_annotations[c][m]["triple"] |->
                 member_annotations[c][m]["triple"][i].v]
        ELSE <<>>])

IsLabel(elem) == Len(elem) >= 2 /\ SubSeq(elem, 1, 2) = "_:"

\* the distinct labels of a sequence of elements, in order of first use
RECURSIVE FirstUses(_)
FirstUses(elems) ==
    IF elems = <<>> THEN <<>>
    ELSE LET before == FirstUses(SubSeq(elems, 1, Len(elems) - 1))
             last == elems[Len(elems)]
         IN  IF IsLabel(last) /\ \A i \in DOMAIN before : before[i] # last
             THEN Append(before, last)
             ELSE before

StatedLabels(c) == FirstUses(Flatten(DeclaredTriples(c)))

StatedBlankName(n) ==
    "_b" \o <<"0", "1", "2", "3", "4", "5", "6", "7", "8", "9">>[n + 1]

\* the nodes of all containers of class c
ContainerNodes(c) ==
    LET mtcs == The(cls_attrs[c].mtcs)
    IN  UNION { UNION { Range(mtcs[k].triples[t]) :
                          t \in DOMAIN mtcs[k].triples } :
                  k \in DOMAIN mtcs }

\* C5: within one class the blank-node labels are named _b0, _b1, _b2, ...
\* in order of first use over the class-level and member-level triples, a
\* label used again keeps its name, and every class starts again at _b0.
C5_BlankNamesInFirstUseOrder ==
    Processed =>
        \A c \in DOMAIN classes : Completed(c) =>
            LET blanks == The(cls_attrs[c].blanks)
                labels == StatedLabels(c)
            IN  /\ Len(blanks) = Len(labels)
                /\ The(cls_attrs[c].blank_id) = Len(labels)
                /\ \A i \in DOMAIN blanks :
                      /\ blanks[i].label = labels[i]
                      /\ blanks[i].var_name = StatedBlankName(i - 1)
                /\ \A v \in ContainerNodes(c) :
                      v.kind = "blank" =>
                          \E i \in DOMAIN blanks :
                              /\ blanks[i].label = v.label
                              /\ blanks[i].var_name = v.var_name

\* A label of A is used at class level and again at member level, and B
\* names the label _:b2 differently from A.
C5_Witness ==
    /\ Processed
    /\ raised = None
    /\ Len(classes) = 2
    /\ Completed(1)
    /\ Completed(2)
    /\ Len(The(cls_attrs[1].mtcs)) = 2
    /\ \E v \in Range(The(cls_attrs[1].mtcs)[1].triples[1]),
          w \in Range(The(cls_attrs[1].mtcs)[2].triples[1]) :
          v.kind = "blank" /\ w.kind = "blank" /\ v.label = w.label
    /\ The(cls_attrs[1].blanks) =
          << [label |-> "_:b1", var_name |-> "_b0"],
             [label |-> "_:b2", var_name |-> "_b1"] >>
    /\ The(cls_attrs[2].blanks) = << [label |-> "_:b2", var_name |-> "_b0"] >>

StatedWeight(v) ==
    CASE v.kind = "value" /\ v.meta_var = "$this" -> 1
      [] v.kind = "value" /\ v.meta_var = "$that" -> 10
      [] v.kind = "value" /\ v.meta_var \in
             {"$that.foreach", "$that.element", "$that.item"} -> 100
      [] v.kind \in {"iri", "prefixed_name"} -> 1000
      [] v.kind = "blank" -> 10000
      [] OTHER -> 100000

StatedSum(t) == StatedWeight(t[1]) + StatedWeight(t[2]) + StatedWeight(t[3])

Ascending(triples) ==
    \A i, j \in DOMAIN triples :
        i < j => StatedSum(triples[i]) <= StatedSum(triples[j])

Occurrences(triples, t) == Cardinality({i \in DOMAIN triples : triples[i] = t})

IsBlankThisType(t) ==
    /\ t[1].kind = "blank"
    /\ t[2].kind = "value" /\ t[2].meta_var = "$this"
    /\ t[3].kind = "prefixed_name" /\ t[3].value = "rdf:type"

IsThisHasNameThat(t) ==
    /\ t[1].kind = "value" /\ t[1].meta_var = "$this"
    /\ t[2].kind = "prefixed_name" /\ t[2].value = "ex:hasName"
    /\ t[3].kind = "value" /\ t[3].meta_var = "$that"

\* C6: process_triples leaves the triples of a container in ascending order
\* of the sum of the node weights (this 1, that 10, element 100, IRI or
\* prefixed name 1000, blank 10000, anything else 100000), in the list of
\* member triples and in the list of element triples; so [blank, this,
\* rdf:type] comes after [this, ex:hasName, that].
C6_TriplesAscendingByWeight ==
    Processed =>
        \A c \in DOMAIN classes : Completed(c) =>
            \A k \in DOMAIN The(cls_attrs[c].mtcs) :
                LET mtc == The(cls_attrs[c].mtcs)[k]
                    out == mtc.member_triples \o mtc.member_element_triples
                IN  /\ Ascending(mtc.member_triples)
                    /\ Ascending(mtc.member_element_triples)
                    /\ \A t \in Range(mtc.triples) \cup Range(out) :
                          Occurrences(out, t) = Occurrences(mtc.triples, t)
                    /\ \A i, j \in DOMAIN mtc.member_triples :
                          /\ IsThisHasNameThat(mtc.member_triples[i])
                          /\ IsBlankThisType(mtc.member_triples[j])
                          => i < j

\* A container declared [blank, this, rdf:type] before [this, ex:hasName,
\* that] and holds them the other way round.
C6_Witness ==
    /\ Processed
    /\ \E c \in DOMAIN classes :
          /\ Completed(c)
          /\ \E k \in DOMAIN The(cls_attrs[c].mtcs) :
                LET mtc == The(cls_attrs[c].mtcs)[k]
                IN  /\ Len(mtc.triples) = 2
                    /\ IsBlankThisType(mtc.triples[1])
                    /\ IsThisHasNameThat(mtc.triples[2])
                    /\ mtc.member_triples = <<mtc.triples[2], mtc.triples[1]>>

-----------------------------------------------------------------------------
(* Claims about the propagation of process_environment *)

DirectBases(d) ==
    {b \in DOMAIN classes :
        \E i \in DOMAIN classes[d].bases :
            classes[d].bases[i] = classes[b].full_name}

\* d derives from b directly or through annotated classes only
RECURSIVE DerivesThroughAnnotated(_, _)
DerivesThroughAnnotated(d, b) ==
    \E x \in DirectBases(d) :
        \/ x = b
        \/ Annotated(x) /\ DerivesThroughAnnotated(x, b)

Defines(c, method) ==
    \E m \in DOMAIN classes[c].members :
        /\ classes[c].members[m].kind = "Function"
        /\ classes[c].members[m].name = method

GloballyNamed(method) ==
    /\ "uid-method" \in DOMAIN global_annotations
    /\ \E i \in DOMAIN global_annotations["uid-method"] :
          global_annotations["uid-method"][i].v = <<method>>

\* the class declares no path, no absolute path and no uid-accessor
NothingOfItsOwn(d) ==
    /\ "path" \notin DOMAIN cls_annotations[d]
    /\ "absolute-path" \notin DOMAIN cls_annotations[d]
    /\ \A m \in DOMAIN classes[d].members :
          ~GloballyNamed(classes[d].members[m].name)

\* the case of C7 for base b and derived class d
InheritsGetId(b, d) ==
    /\ Processed
    /\ Defines(b, "getId")
    /\ GloballyNamed("getId")
    /\ Annotated(d)
    /\ DerivesThroughAnnotated(d, b)
    /\ NothingOfItsOwn(d)

GotGetId(d) ==
    /\ cls_attrs[d].path_type = Set("RELATIVE_TO_BASE_PATH")
    /\ cls_attrs[d].uid_method = Set(Some(<<StrEntry("getId")>>))

IsDiamond ==
    /\ Len(classes) = 4
    /\ DirectBases(2) = {1}
    /\ DirectBases(3) = {1}
    /\ DirectBases(4) = {2, 3}

\* no uid-method value is twice in the annotations of a class
NoValueTwice(annos) ==
    "uid-method" \in DOMAIN annos =>
        \A i, j \in DOMAIN annos["uid-method"] :
            annos["uid-method"][i] = annos["uid-method"][j] => i = j

\* what process_environment derives
Derived == <<cls_annotations, cls_attrs, raised>>

\* C8: process_environment run on an environment it has already processed
\* leaves the annotations, the flags, the path classification, the blank
\* names and the triple groups as they are, and no uid-method value is
\* twice on a class, in an inheritance diamond too.
C8_SecondRunChangesNothing ==
    [][Processed =>
          /\ Derived' = Derived
          /\ \A c \in DOMAIN classes :
                /\ NoValueTwice(cls_annotations[c])
                /\ NoValueTwice(cls_annotations'[c])]_vars

\* The second run is over in a diamond whose top class defines getId and
\* whose other classes inherited it.
C8_Witness ==
    /\ Processed
    /\ runs = 2
    /\ IsDiamond
    /\ Defines(1, "getId")
    /\ \A c \in {2, 3, 4} :
          /\ Annotated(c)
          /\ cls_annotations[c]["uid-method"] = <<StrEntry("getId")>>
          /\ GotGetId(c)

\* the member functions of c that carry triple annotations
FunctionsWithTriples(c) ==
    {m \in DOMAIN classes[c].members :
        /\ classes[c].members[m].kind = "Function"
        /\ "triple" \in DOMAIN member_annotations[c][m]
        /\ member_annotations[c][m]["triple"] # <<>>}

ContainersOf(c, m) ==
    {k \in DOMAIN The(cls_attrs[c].mtcs) :
        The(cls_attrs[c].mtcs)[k].member = m}

-----------------------------------------------------------------------------
(* Claims about create_triple *)

\* the text sub occurs in elem
Occurs(sub, elem) ==
    \E i \in 1..Len(elem) :
        i + Len(sub) - 1 <= Len(elem) /\ SubSeq(elem, i, i + Len(sub) - 1) = sub

FirstColon(elem) ==
    CHOOSE i \in 1..Len(elem) :
        /\ SubSeq(elem, i, i) = ":"
        /\ \A j \in 1..(i - 1) : SubSeq(elem, j, j) # ":"

TextBeforeColon(elem) == SubSeq(elem, 1, FirstColon(elem) - 1)
TextAfterColon(elem) == SubSeq(elem, FirstColon(elem) + 1, Len(elem))

\* a text without quotes or backslashes, as a quoted literal
Quoted(text) == "\"" \o text \o "\""

ElementSynonyms == {"$that.foreach", "$that.element", "$that.item"}

\* the element matches none of the rules
NoRuleFor(elem) ==
    /\ ~IsLabel(elem)
    /\ elem \notin {"$this", "$that"} \cup ElementSynonyms
    /\ ~Occurs(":", elem)

\* the triple annotations container k of class c was made from
DeclaredFor(c, k) ==
    LET m == The(cls_attrs[c].mtcs)[k].member
        entries == IF m = 0 THEN cls_annotations[c]["triple"]
                   ELSE member_annotations[c][m]["triple"]
    IN  [t \in DOMAIN entries |-> entries[t].v]

\* the rules of C11 up to the prefixed name, for node made from elem in
\* a container of class c for member m
ClassifiedAsStated(node, elem, c, m) ==
    IF IsLabel(elem)
    THEN node.kind = "blank" /\ node.label = elem
    ELSE IF elem = "$this"
    THEN /\ node.kind = "value" /\ node.meta_var = elem
         /\ node.cls = c /\ node.member = 0
         /\ ~node.container
    ELSE IF elem = "$that" \/ elem \in ElementSynonyms
    THEN /\ node.kind = "value" /\ node.meta_var = elem
         /\ node.cls = c /\ node.member = m /\ m # 0
         /\ node.container = (elem # "$that")
    ELSE IF Occurs("://", elem)
    THEN node.kind = "iri" /\ node.value = elem
    ELSE IF Occurs(":", elem)
    THEN node.kind = "prefixed_name" /\ node.value = elem
    ELSE FALSE

\* every node of every container of a finished class satisfies P
EveryNode(P(_, _)) ==
    \A c \in DOMAIN classes : Completed(c) =>
        \A k \in DOMAIN The(cls_attrs[c].mtcs) :
            LET mtc == The(cls_attrs[c].mtcs)[k]
            IN  /\ Len(mtc.triples) = Len(DeclaredFor(c, k))
                /\ \A t \in DOMAIN mtc.triples : \A i \in 1..3 :
                      /\ ClassifiedAsStated(mtc.triples[t][i],
                                            DeclaredFor(c, k)[t][i],
                                            c, mtc.member)
                      /\ P(mtc.triples[t][i], DeclaredFor(c, k)[t][i])

\* a declared element without a rule makes process_environment raise
NoRuleRaises ==
    (\E c \in DOMAIN classes : Annotated(c) /\
        \E t \in DOMAIN DeclaredTriples(c) : \E i \in 1..3 :
            NoRuleFor(DeclaredTriples(c)[t][i]))
    => raised # None

BarePrefix(node, elem) ==
    node.kind = "prefixed_name" =>
        /\ node.prefix = TextBeforeColon(elem)
        /\ node.local_part = TextAfterColon(elem)

QuotedPrefix(node, elem) ==
    node.kind = "prefixed_name" =>
        /\ node.prefix = Quoted(TextBeforeColon(elem))
        /\ node.local_part = Quoted(TextAfterColon(elem))

\* C11 as stated: each element is classified by the first rule that matches
\* ('_:' blank, '$this' class value, '$that' and its three synonyms member
\* value, '://' IRI, ':' prefixed name, else an error), and the prefix and
\* local part of a prefixed name are the text before and after the first ':'.
C11_AsStated == Processed => (EveryNode(BarePrefix) /\ NoRuleRaises)

\* C11 (amended): the same classification, in the same order, so that an
\* element starting with '_:' is a blank node even when it contains '://';
\* the prefix and local part of a prefixed name are the quoted string
\* literals of the text before and after the first ':' ('a:b' gives prefix
\* "a" and local part "b", quotes included).
C11_ClassifiedByFirstRule == Processed => (EveryNode(QuotedPrefix) /\ NoRuleRaises)

\* the triple ['_:x://y', 'a:b', '$this'] was made for a member
C11_Witness ==
    /\ Processed
    /\ \E c \in DOMAIN classes :
          /\ Completed(c)
          /\ \E k \in DOMAIN The(cls_attrs[c].mtcs) :
                LET mtc == The(cls_attrs[c].mtcs)[k]
                IN  /\ mtc.member # 0
                    /\ \E t \in DOMAIN mtc.triples :
                          /\ DeclaredFor(c, k)[t] = <<"_:x://y", "a:b", "$this">>
                          /\ mtc.triples[t][1].kind = "blank"
                          /\ mtc.triples[t][2].kind = "prefixed_name"
                          /\ mtc.triples[t][2].prefix = "\"a\""
                          /\ mtc.triples[t][2].local_part = "\"b\""

\* the elements of the class-level and of the member-level triples of c
ClassLevelElements(c) ==
    IF "triple" \in DOMAIN cls_annotations[c]
    THEN UNION {Range(cls_annotations[c]["triple"][t].v) :
                   t \in DOMAIN cls_annotations[c]["triple"]}
    ELSE {}

MemberLevelElements(c) ==
    UNION {IF "triple" \in DOMAIN member_annotations[c][m]
           THEN UNION {Range(member_annotations[c][m]["triple"][t].v) :
                          t \in DOMAIN member_annotations[c][m]["triple"]}
           ELSE {} : m \in DOMAIN classes[c].members}

\* the elements of c that match no rule or need a member and have none
Offenders(c) ==
    {e \in ClassLevelElements(c) \cup MemberLevelElements(c) : NoRuleFor(e)}
    \cup (ClassLevelElements(c) \cap ({"$that"} \cup ElementSynonyms))

\* the annotated class the triples step fails on, if any
FailingClasses ==
    {c \in DOMAIN classes :
        \E n \in DOMAIN annotated_classes :
            /\ annotated_classes[n] = c
            /\ Offenders(c) # {}
            /\ \A k \in 1..(n - 1) : Offenders(annotated_classes[k]) = {}}

\* C12: process_environment raises when a triple element matches no rule
\* or a class-level triple uses '$that' or one of its synonyms; the message
\* contains the offending element, and the class that was being processed
\* has no mtcs, no reader and no writer.
C12_OffendingTripleRaises ==
    Processed =>
        /\ raised # None <=> FailingClasses # {}
        /\ \A c \in FailingClasses :
              /\ \E e \in Offenders(c) : Occurs(e, The(raised))
              /\ cls_attrs[c].mtcs = Unset
              /\ cls_attrs[c].reader = Unset
              /\ cls_attrs[c].writer = Unset

\* A class-level triple of class A refers to '$that'.
C12_Witness ==
    /\ Processed
    /\ raised = Some("Per class triple annotation cannot refer to $that")
    /\ 1 \in FailingClasses
    /\ "$that" \in ClassLevelElements(1)
    /\ cls_attrs[1].mtcs = Unset

-----------------------------------------------------------------------------
(* Claims about unbalanced marker sequences *)

IsBeginMarker(i) ==
    /\ IsAnnotate(i)
    /\ startswith(Visited(i).displayname, "arvida-")
    /\ ~IsEndMarker(i)
    /\ ~IsValueMarker(i)

\* a parameter is open after the first i children in visiting order, by the
\* protocol: a begin marker opens one, an end marker closes it
RECURSIVE OpenAfter(_)
OpenAfter(i) ==
    IF i = 0 THEN FALSE
    ELSE IF IsEndMarker(i) THEN FALSE
    ELSE IF IsBeginMarker(i) THEN TRUE
    ELSE OpenAfter(i - 1)

\* an end or value marker met while no parameter is open
StrayAt(i) == (IsEndMarker(i) \/ IsValueMarker(i)) /\ ~OpenAfter(i - 1)

\* a begin marker met while another parameter is open
NestedAt(i) == IsBeginMarker(i) /\ OpenAfter(i - 1)

\* the first child that breaks the protocol, 0 if none does
FirstUnbalanced ==
    LET breaks == {i \in 1..Len(children) : StrayAt(i) \/ NestedAt(i)}
    IN  IF breaks = {} THEN 0
        ELSE CHOOSE i \in breaks : \A j \in breaks : i <= j

\* C13 as stated: a sequence with an end or value marker met while no
\* parameter is open, or a begin marker met while one is open, is not
\* decoded: the decoder does not return, and the marker that breaks the
\* protocol leaves no entry in the annotation map.
C13_UnbalancedReported ==
    FirstUnbalanced # 0 =>
        /\ dec_pc # "done"
        /\ StrayAt(FirstUnbalanced) =>
              StatedName(Visited(FirstUnbalanced).displayname)
                  \notin DOMAIN result

-----------------------------------------------------------------------------
(* Claims about Environment.build_index *)

Indexed == env_pc \in {"indexed", "processed"}

\* the class or one of its members, anonymous ones included, has at least
\* one annotation in its annotation map
CarriesAnnotation(c) ==
    \/ DOMAIN cls_annotations[c] # {}
    \/ \E m \in DOMAIN classes[c].members :
          DOMAIN member_annotations[c][m] # {}

\* C14 as stated: a class is in annotated_classes if and only if the class
\* or at least one of its members (those of anonymous structs and unions
\* included) has an annotation, a resolved uid-method annotation counting.
C14_AnnotatedIffCarriesAnnotation ==
    Indexed => \A c \in DOMAIN classes : Annotated(c) <=> CarriesAnnotation(c)

\* C15 as stated: B is in D.annotated_base_classes only if B is a declared
\* base of D and both are in annotated_classes, D is in
\* B.annotated_sub_classes only under the same condition, and the one holds
\* if and only if the other does.
C15_EdgesBetweenAnnotatedOnly ==
    Indexed =>
        \A b, d \in DOMAIN classes :
            /\ b \in annotated_base_classes[d] =>
                  b \in DirectBases(d) /\ Annotated(b) /\ Annotated(d)
            /\ d \in annotated_sub_classes[b] =>
                  b \in DirectBases(d) /\ Annotated(b) /\ Annotated(d)
            /\ b \in annotated_base_classes[d] <=>
                  d \in annotated_sub_classes[b]

-----------------------------------------------------------------------------
(* Claims about the propagation of uid-method and use-visitor *)

\* the 'uid-method' values of class c in annos, None if it has none
UidValues(annos, c) ==
    IF "uid-method" \in DOMAIN annos[c] THEN <<annos[c]["uid-method"]>>
    ELSE <<>>

\* b is an ancestor of c along annotated-sub-class edges
RECURSIVE ReachesDown(_, _, _)
ReachesDown(b, c, depth) ==
    /\ depth > 0
    /\ \E x \in annotated_sub_classes[b] :
          x = c \/ ReachesDown(x, c, depth - 1)

\* the calls of propagate_annotation of one process_environment, in order
AllCalls(log) == Flatten(log)

\* the values offered to class c, in the order they were offered
OffersTo(log, c) ==
    SelectSeq(AllCalls(log), LAMBDA e : e.cls = c /\ e.offered # <<>>)

\* C16: propagation of the uid-accessor goes downward only and never
\* overwrites.  Over one process_environment: a class that has uid-method
\* values keeps exactly these; every propagation start is a class offered
\* nothing, and every other call offers a class the values of a class it is
\* an annotated subclass of; a class that had none and ends with values has
\* the values that an ancestor along annotated-sub-class edges had before,
\* and they are those of the first offer made to it, later offers neither
\* replacing nor extending them.
C16_DownwardFirstOfferKept ==
    [][(env_pc \in {"indexed", "processed"} /\ runs' = runs + 1) =>
          /\ \A c \in DOMAIN classes :
                /\ UidValues(cls_annotations, c) # <<>> =>
                      UidValues(cls_annotations', c)
                          = UidValues(cls_annotations, c)
                /\ (/\ UidValues(cls_annotations, c) = <<>>
                    /\ UidValues(cls_annotations', c) # <<>>) =>
                      /\ \E a \in DOMAIN classes :
                            /\ ReachesDown(a, c, Len(classes))
                            /\ UidValues(cls_annotations, a)
                                   = UidValues(cls_annotations', c)
                      /\ OffersTo(uid_visits', c) # <<>>
                      /\ UidValues(cls_annotations', c)
                             = OffersTo(uid_visits', c)[1].offered
                /\ (/\ UidValues(cls_annotations, c) = <<>>
                    /\ OffersTo(uid_visits', c) = <<>>) =>
                      UidValues(cls_annotations', c) = <<>>
          /\ \A s \in DOMAIN uid_visits' :
                /\ uid_visits'[s][1] = [cls |-> s, offered |-> <<>>]
                /\ \A j \in 2..Len(uid_visits'[s]) :
                      \E b \in DOMAIN classes :
                          /\ uid_visits'[s][j].cls \in annotated_sub_classes[b]
                          /\ uid_visits'[s][j].offered
                                 = UidValues(cls_annotations', b)
      ]_vars

\* D derives from B, which defines getId, and from C, which defines getUid;
\* D was offered both lists and holds the one offered first.
C16_Witness ==
    /\ Processed
    /\ Len(classes) = 4
    /\ DirectBases(4) = {2, 3}
    /\ Defines(2, "getId")
    /\ Defines(3, "getUid")
    /\ ~Defines(4, "getId") /\ ~Defines(4, "getUid")
    /\ Len(OffersTo(uid_visits, 4)) >= 2
    /\ \E i \in DOMAIN OffersTo(uid_visits, 4) :
          OffersTo(uid_visits, 4)[i].offered # OffersTo(uid_visits, 4)[1].offered
    /\ UidValues(cls_annotations, 4) = OffersTo(uid_visits, 4)[1].offered

\* c carries a use-visitor annotation
MarksVisitor(c) == "use-visitor" \in DOMAIN cls_annotations[c]

\* b is an annotated ancestor of c along annotated-base-class edges
RECURSIVE ReachesUp(_, _, _)
ReachesUp(c, b, depth) ==
    /\ depth > 0
    /\ \E x \in annotated_base_classes[c] :
          x = b \/ ReachesUp(x, b, depth - 1)

\* C17: after process_environment every annotated class M that carries a
\* use-visitor annotation, every annotated ancestor and every annotated
\* descendant of M have use_visitor = True; a class with use_visitor = True
\* has use_visitor_top_class = True exactly when it has no annotated base;
\* every annotated class has use_visitor True or False.
C17_VisitorSpreadsUpAndDown ==
    Processed =>
        /\ \A m \in DOMAIN classes : (Annotated(m) /\ MarksVisitor(m)) =>
              /\ cls_attrs[m].use_visitor = <<TRUE>>
              /\ \A x \in DOMAIN classes :
                    (Annotated(x) /\
                     (ReachesUp(m, x, Len(classes))
                        \/ ReachesDown(m, x, Len(classes)))) =>
                        cls_attrs[x].use_visitor = <<TRUE>>
        /\ \A c \in DOMAIN classes :
              /\ cls_attrs[c].use_visitor = <<TRUE>> =>
                    cls_attrs[c].use_visitor_top_class
                        = <<annotated_base_classes[c] = {}>>
              /\ Annotated(c) =>
                    cls_attrs[c].use_visitor \in {<<TRUE>>, <<FALSE>>}

\* C marks use-visitor; its annotated base B and its annotated subclass D
\* have use_visitor = True, B as top class and D not; A, which is no
\* relative of C, has use_visitor = False.
C17_Witness ==
    /\ Processed
    /\ Len(classes) = 4
    /\ MarksVisitor(3)
    /\ ~MarksVisitor(1) /\ ~MarksVisitor(2) /\ ~MarksVisitor(4)
    /\ annotated_base_classes[2] = {}
    /\ annotated_base_classes[3] = {2}
    /\ annotated_base_classes[4] = {3}
    /\ Annotated(1)
    /\ cls_attrs[2].use_visitor = <<TRUE>>
    /\ cls_attrs[2].use_visitor_top_class = <<TRUE>>
    /\ cls_attrs[4].use_visitor = <<TRUE>>
    /\ cls_attrs[4].use_visitor_top_class = <<FALSE>>
    /\ cls_attrs[1].use_visitor = <<FALSE>>

-----------------------------------------------------------------------------
(* Claims about invocations that name a member *)

MemberTargeting ==
    {"arvida-field-semantic", "arvida-member-semantic",
     "arvida-annotate-member", "arvida-member-stmt", "arvida-member-path",
     "arvida-member-absolute-path", "arvida-member-create-element"}

\* the invocations made on class c, in source order
InvocationsOn(c) ==
    Flatten([n \in DOMAIN env_annotations |->
        IF env_annotations[n].item # <<>>
           /\ env_annotations[n].item[1].value = classes[c].full_name
        THEN env_annotations[n].annotations
        ELSE <<>>])

NamesMember(inv, name) ==
    /\ inv.name # <<>>
    /\ inv.name[1] \in MemberTargeting
    /\ inv.params[1].value = name

\* the class has a member of that name, anonymous members included
HasMember(c, name) ==
    \E m \in DOMAIN classes[c].members : classes[c].members[m].name = name

\* the number of values in an annotation map
Entries(annos) ==
    LET keys == DOMAIN annos
        RECURSIVE Sum(_)
        Sum(ks) == IF ks = {} THEN 0
                   ELSE LET k == CHOOSE x \in ks : TRUE
                        IN  Len(annos[k]) + Sum(ks \ {k})
    IN  Sum(keys)

\* the invocations on c that name member m of c; arvida-field-semantic
\* names fields only
BoundTo(c, m) ==
    Cardinality({i \in DOMAIN InvocationsOn(c) :
        /\ NamesMember(InvocationsOn(c)[i], classes[c].members[m].name)
        /\ InvocationsOn(c)[i].name[1] = "arvida-field-semantic"
              => classes[c].members[m].kind = "Field"})

\* an invocation on c names a member that c does not have, and a later one
\* names a member that c has
MissingThenPresent(c) ==
    \E i, j \in DOMAIN InvocationsOn(c) :
        /\ i < j
        /\ \E name \in {"nothere"} :
              NamesMember(InvocationsOn(c)[i], name) /\ ~HasMember(c, name)
        /\ \E m \in DOMAIN classes[c].members :
              NamesMember(InvocationsOn(c)[j], classes[c].members[m].name)

\* C18: build_index raises nothing when a member-targeting invocation names
\* a member that the class and its anonymous members do not have; the
\* invocation changes the annotation map of no field and of no function,
\* and the invocations after it are bound: every member gains exactly one
\* value per invocation that names it, whatever else was invoked.
C18_MissingMemberDropped ==
    [][env_pc = "parsed" =>
          /\ env_pc' = "indexed"
          /\ raised' = <<>>
          /\ \A c \in DOMAIN classes : \A m \in DOMAIN classes[c].members :
                Entries(member_annotations'[c][m])
                    = Entries(member_annotations[c][m]) + BoundTo(c, m)
      ]_vars

\* arvida-member-path names the member 'nothere' of M, and the invocation
\* after it gave the two methods getX of M their semantic.
C18_Witness ==
    /\ env_pc = "indexed"
    /\ Len(classes) = 2
    /\ classes[1].full_name = "M"
    /\ MissingThenPresent(1)
    /\ InvocationsOn(1)[1].name = <<"arvida-member-path">>
    /\ \A m \in DOMAIN classes[1].members :
          classes[1].members[m].name = "getX" =>
              /\ "semantic" \in DOMAIN member_annotations[1][m]
              /\ [t |-> "str", v |-> <<"ex:x">>]
                     \in Range(member_annotations[1][m]["semantic"])
    /\ \A m \in DOMAIN classes[1].members :
          classes[1].members[m].name \in {"x", "u"} =>
              member_annotations[1][m] = << >>

-----------------------------------------------------------------------------
(* Claims about the join expression of process_path_annotation *)

IsSubstitution(source) == SubSeq(source, 1, 1) = "{"

\* the expression of one segment as it is written in the path: a text is
\* quoted as it stands, escapes removed; a substitution is parenthesised
\* with its meta-variables rewritten by the substitution list in force
StatedSegment(source, subst_list) ==
    LET member == subst_list[1] = <<"$this", "this">>
    IN  CASE source = "/name" -> "\"/name\""
          [] source = "$this" -> "\"$this\""
          [] source = "\\{b" -> "\"{b\""
          [] source = "{$this}" -> IF member THEN "(this)" ELSE "(_this)"
          [] source = "{$that}" -> IF member THEN "(_that)" ELSE "($that)"

\* lists of segments in source order; two texts side by side would be one
\* segment
StatedSegmentLists ==
    {g \in UNION {[1..n -> {"/name", "$this", "\\{b", "{$this}", "{$that}"}] :
                     n \in 1..MaxSegments} :
        \A i \in 1..(Len(g) - 1) :
            IsSubstitution(g[i]) \/ IsSubstitution(g[i + 1])}

RECURSIVE SourceOf(_)
SourceOf(g) == IF g = <<>> THEN "" ELSE Head(g) \o SourceOf(Tail(g))

\* s1 for one segment, joinPath(...joinPath(joinPath(s1,s2),s3)...,sn) else
RECURSIVE LeftNested(_, _)
LeftNested(g, subst_list) ==
    IF Len(g) = 1 THEN StatedSegment(g[1], subst_list)
    ELSE "Arvida::RDF::joinPath("
             \o LeftNested(SubSeq(g, 1, Len(g) - 1), subst_list)
             \o "," \o StatedSegment(g[Len(g)], subst_list) \o ")"

JoinApplications(expr) ==
    Cardinality({i \in 1..Len(expr) :
        /\ i + Len("joinPath(") - 1 <= Len(expr)
        /\ SubSeq(expr, i, i + Len("joinPath(") - 1) = "joinPath("})

PathDone == path_pc = "done"

\* the last entry of the path annotation list compiles to the left-nested
\* join of its segments
LastEntryLeftNested ==
    (PathDone /\ path_annotation_list # <<>>) =>
        \A g \in StatedSegmentLists :
            LastPathText = SourceOf(g) =>
                /\ The(path_result).pp_path = LeftNested(g, path_subst_list)
                /\ JoinApplications(The(path_result).pp_path) = Len(g) - 1

NoPathGiven ==
    (PathDone /\ path_annotation_list = <<>>) =>
        /\ The(path_result).pp_path = "\"\""
        /\ The(path_result).path = <<>>
        /\ The(path_result).unquoted_path = <<>>

EmptyPathGiven == PathDone /\ path_annotation_list # <<>> /\ LastPathText = ""

\* C19 as stated: the last entry compiles to s1 for one segment and to the
\* left-nested joinPath of its n segments, with n-1 applications, for more;
\* with no path or an empty path the expression is the empty-string literal
\* and the quoted and the raw literal are absent.
C19_AsStated ==
    /\ LastEntryLeftNested
    /\ NoPathGiven
    /\ EmptyPathGiven =>
          /\ The(path_result).pp_path = "\"\""
          /\ The(path_result).path = <<>>
          /\ The(path_result).unquoted_path = <<>>

\* C19 (amended): as stated for one and more segments and for no path; with
\* an empty path the expression is the empty-string literal, the quoted
\* literal is absent and the raw literal is the empty string.
C19_LeftNestedJoin ==
    /\ LastEntryLeftNested
    /\ NoPathGiven
    /\ EmptyPathGiven =>
          /\ The(path_result).pp_path = "\"\""
          /\ The(path_result).path = <<>>
          /\ The(path_result).unquoted_path = <<"">>

\* The member path "{$this}/name{$that}" declared after an earlier path.
C19_Witness ==
    /\ PathDone
    /\ Len(path_annotation_list) = 2
    /\ LastPathText = "{$this}/name{$that}"
    /\ path_subst_list[1] = <<"$this", "this">>
    /\ The(path_result).pp_path =
           "Arvida::RDF::joinPath(Arvida::RDF::joinPath((this),\"/name\"),(_that))"

-----------------------------------------------------------------------------
(* Claims about termination and the visited guard *)

\* no class is entered twice by one propagation start
EnteredOnce(visits, ClassOf(_)) ==
    \A i, j \in DOMAIN visits :
        ClassOf(visits[i]) = ClassOf(visits[j]) => i = j

CallClass(e) == e.cls
MarkedClass(c) == c

\* C20 as stated: process_environment finishes on every acyclic hierarchy,
\* diamonds included, and within one propagation start neither
\* propagate_use_visitor nor propagate_annotation for uid-method processes
\* a class more than once.
C20_EachClassOncePerStart ==
    Processed =>
        /\ \A s \in DOMAIN visitor_visits :
              EnteredOnce(visitor_visits[s], MarkedClass)
        /\ \A s \in DOMAIN uid_visits :
              EnteredOnce(uid_visits[s], CallClass)

-----------------------------------------------------------------------------
(* Claims about what process_environment leaves alone *)

\* a step that is one call of process_environment
ProcessStep == env_pc \in {"indexed", "processed"} /\ runs' = runs + 1

\* what the builder made of the declarations: the classes with their
\* members and base names, the annotations of the members, the class list,
\* the annotated classes and their edges
Built ==
    <<classes, env_annotations, global_annotations, annotated_classes,
      member_annotations, annotated_base_classes, annotated_sub_classes,
      env_text>>

\* every annotation list a class had is as it was, and a list that is new
\* is a 'uid-method' list
OnlyUidMethodAdded(before, after) ==
    \A c \in DOMAIN before :
        /\ DOMAIN before[c] \subseteq DOMAIN after[c]
        /\ \A key \in DOMAIN after[c] :
              IF key \in DOMAIN before[c]
              THEN after[c][key] = before[c][key]
              ELSE key = "uid-method"

\* C21 as stated: a call of process_environment leaves the annotation map
\* of every class, field and function, the member lists, the base names,
\* the class list and the annotated classes as they were.
C21_AsStated ==
    [][ProcessStep =>
          /\ Built' = Built
          /\ cls_annotations' = cls_annotations]_vars

\* C21: a call of process_environment leaves the member annotations, the
\* member lists, the base names, the class list and the annotated classes
\* as they were, and every annotation list of a class too; the one change
\* to the annotation map of a class is a 'uid-method' list added to a
\* class that had none.
C21_OnlyUidMethodAdded ==
    [][ProcessStep =>
          /\ Built' = Built
          /\ OnlyUidMethodAdded(cls_annotations, cls_annotations')]_vars

\* A class annotated with a semantic, none of whose members a global
\* uid-method annotation names, has a 'uid-method' list after the call.
C21_Witness ==
    /\ Processed
    /\ \E c \in DOMAIN classes :
          /\ Annotated(c)
          /\ \A m \in DOMAIN classes[c].members :
                ~GloballyNamed(classes[c].members[m].name)
          /\ "semantic" \in DOMAIN cls_annotations[c]
          /\ "uid-method" \in DOMAIN cls_annotations[c]

-----------------------------------------------------------------------------
(* Claims about the path kind of a class *)

\* the annotated class carries an absolute-path annotation and a
\* uid-accessor
BothApply(c) ==
    /\ Annotated(c)
    /\ get_or(cls_annotations[c], "absolute-path", <<>>) # <<>>
    /\ ~IsNone(get(cls_annotations[c], "uid-method"))

\* the path of the class is compiled from its absolute-path annotation
PathFromAbsolutePath(c) ==
    LET r == process_path_annotation(cls_annotations[c]["absolute-path"],
                                     CLASS_PATH_SUBST_LIST)
    IN  /\ cls_attrs[c].path = Set(r.path)
        /\ cls_attrs[c].unquoted_path = Set(r.unquoted_path)
        /\ cls_attrs[c].pp_path = Set(r.pp_path)

\* C22 as stated: when process_environment has finished, a class with an
\* absolute-path annotation and a uid-accessor has its path compiled from
\* the absolute-path annotation and the path kind ABSOLUTE_PATH.
C22_AsStated ==
    Processed =>
        \A c \in DOMAIN classes : BothApply(c) =>
            /\ PathFromAbsolutePath(c)
            /\ cls_attrs[c].path_type = Set(ABSOLUTE_PATH)

\* C22: when process_environment has finished, a class with an
\* absolute-path annotation and a uid-accessor has its path compiled from
\* the absolute-path annotation, the uid-accessor as uid_method and the
\* path kind RELATIVE_TO_BASE_PATH.
C22_PathAbsoluteKindRelativeToBase ==
    Processed =>
        \A c \in DOMAIN classes : BothApply(c) =>
            /\ PathFromAbsolutePath(c)
            /\ cls_attrs[c].uid_method =
                  Set(get(cls_annotations[c], "uid-method"))
            /\ cls_attrs[c].path_type = Set(RELATIVE_TO_BASE_PATH)

\* M carries the absolute path /abs/{$this} and defines the accessor getX
\* that a global uid-method annotation names.
C22_Witness ==
    /\ Processed
    /\ \E c \in DOMAIN classes :
          /\ BothApply(c)
          /\ Defines(c, "getX")
          /\ cls_attrs[c].unquoted_path = Set(Some("/abs/{$this}"))
          /\ cls_attrs[c].pp_path =
                Set(joinPath(quote_string_literal("/abs/"), "(_this)"))
          /\ cls_attrs[c].uid_method = Set(Some(<<StrEntry("getX")>>))
          /\ cls_attrs[c].path_type = Set(RELATIVE_TO_BASE_PATH)

-----------------------------------------------------------------------------
(* get_full_name: the fully qualified name of a cursor *)

\* a cursor: its kind, cursor.spelling and cursor.type.spelling
Cursor(kind, name, type_name) ==
    [kind |-> kind, spelling |-> name, type_spelling |-> type_name]

NAMED_SCOPE_KINDS ==
    {"NAMESPACE", "STRUCT_DECL", "UNION_DECL", "ENUM_DECL", "CLASS_DECL",
     "CLASS_TEMPLATE", "CLASS_TEMPLATE_PARTIAL_SPECIALIZATION"}

is_named_scope(c) == c.kind \in NAMED_SCOPE_KINDS

\* is_type of a cursor: the type is valid (it has a spelling here) or the
\* kind is one of the record kinds
is_type_cursor(c) ==
    \/ c.type_spelling # ""
    \/ c.kind \in {"STRUCT_DECL", "UNION_DECL", "ENUM_DECL", "CLASS_DECL",
                   "CLASS_TEMPLATE", "CLASS_TEMPLATE_PARTIAL_SPECIALIZATION"}

type_spelling(c) ==
    IF /\ is_type_cursor(c)
       /\ c.type_spelling # ""
       /\ ~contains(c.type_spelling, "::")
       /\ ~contains(c.type_spelling, "<")
    THEN c.type_spelling
    ELSE c.spelling

\* "::".join(names)
RECURSIVE JoinScope(_)
JoinScope(names) ==
    IF names = <<>> THEN ""
    ELSE IF Len(names) = 1 THEN names[1]
    ELSE names[1] \o "::" \o JoinScope(Tail(names))

\* semantic_parents of chain[1]: chain[2] is cursor.semantic_parent, and the
\* parent of the last cursor is the translation unit, not a named scope.
\* The names are pushed to the left, so the outermost comes first.
RECURSIVE ParentsFrom(_, _, _)
ParentsFrom(chain, i, p) ==
    IF i <= Len(chain) /\ is_named_scope(chain[i])
    THEN ParentsFrom(chain, i + 1, <<type_spelling(chain[i])>> \o p)
    ELSE p

semantic_parents(chain) == ParentsFrom(chain, 2, <<>>)

\* kinds for which get_full_name returns None at once (those of the list
\* that the inputs use)
NAMELESS_KINDS == {"TRANSLATION_UNIT", "VAR_DECL", "CXX_ACCESS_SPEC_DECL",
                   "USING_DIRECTIVE"}

\* kinds named by the spelling of their type
TYPE_NAMED_KINDS == {"STRING_LITERAL", "CHARACTER_LITERAL", "INTEGER_LITERAL",
                     "FLOATING_LITERAL", "PARM_DECL", "CXX_BOOL_LITERAL_EXPR",
                     "TEMPLATE_TYPE_PARAMETER"}

\* get_full_name of chain[1], a cursor that is not a reference to another
get_full_name(chain) ==
    LET cursor == chain[1]
        parents == semantic_parents(chain)
        own_name == IF cursor.spelling # "" THEN cursor.spelling
                    ELSE "(anonymous)"
        joined == JoinScope(parents \o <<own_name>>)
        name == IF cursor.kind \in TYPE_NAMED_KINDS THEN cursor.type_spelling
                ELSE IF cursor.kind = "CONSTRUCTOR" THEN joined
                ELSE IF contains(own_name, "anonymous") THEN own_name
                ELSE IF joined = "" THEN own_name
                ELSE joined
    IN  IF cursor.kind \in NAMELESS_KINDS THEN None
        ELSE IF cursor.kind = "CXX_NULL_PTR_LITERAL_EXPR"
        THEN Some("::std::nullptr_t")
        ELSE Some(IF name # "" /\ ~startswith(name, "::") THEN "::" \o name
                  ELSE name)

(* Cursors: a declaration below up to MaxParents semantic parents, nested  *)
(* as C++ allows: a namespace in a namespace or a linkage specification,   *)
(* a field, method or constructor in a class, a class anywhere.            *)

MaxParents == 2

MaxNameCalls == 2

RecordKinds == {"STRUCT_DECL", "CLASS_DECL"}

DeclarationSpellings ==
    [STRUCT_DECL |-> {"S", "anonymous_pool", ""},
     CLASS_DECL |-> {"K"},
     FUNCTION_DECL |-> {"f"},
     CXX_METHOD |-> {"get"},
     FIELD_DECL |-> {"x"},
     CONSTRUCTOR |-> {"K"},
     VAR_DECL |-> {"v"},
     PARM_DECL |-> {"p"},
     CXX_NULL_PTR_LITERAL_EXPR |-> {""}]

ParentSpellings ==
    [NAMESPACE |-> {"N", "M"},
     STRUCT_DECL |-> {"T"},
     CLASS_DECL |-> {"C"},
     CLASS_TEMPLATE |-> {"V"},
     FUNCTION_DECL |-> {"g"},
     LINKAGE_SPEC |-> {""}]

\* may a cursor of kind inner have a semantic parent of kind outer
NestsIn(inner, outer) ==
    IF inner \in {"NAMESPACE", "LINKAGE_SPEC", "FUNCTION_DECL"}
    THEN outer \in {"NAMESPACE", "LINKAGE_SPEC"}
    ELSE IF inner \in {"FIELD_DECL", "CXX_METHOD", "CONSTRUCTOR"}
    THEN outer \in {"STRUCT_DECL", "CLASS_DECL", "CLASS_TEMPLATE"}
    ELSE IF inner \in {"PARM_DECL", "CXX_NULL_PTR_LITERAL_EXPR"}
    THEN outer \in {"FUNCTION_DECL"}
    ELSE outer # "LINKAGE_SPEC" \/ inner \in RecordKinds \cup {"VAR_DECL"}

\* at the top: what the translation unit may hold
NestsInUnit(kind) ==
    kind \notin {"FIELD_DECL", "CXX_METHOD", "CONSTRUCTOR", "PARM_DECL",
                 "CXX_NULL_PTR_LITERAL_EXPR"}

\* the spelling clang gives the type of chain[i]: the qualified name of a
\* record, int for a parameter, nothing for what has no type
RECURSIVE ScopeNames(_, _)
ScopeNames(chain, i) ==
    IF i > Len(chain) THEN <<>>
    ELSE ScopeNames(chain, i + 1) \o
         (IF chain[i].kind \in NAMED_SCOPE_KINDS /\ chain[i].spelling # ""
          THEN <<chain[i].spelling>> ELSE <<>>)

Typed(chain) ==
    [i \in DOMAIN chain |->
        [chain[i] EXCEPT !.type_spelling =
            IF chain[i].kind \in RecordKinds /\ chain[i].spelling # ""
            THEN JoinScope(ScopeNames(chain, i))
            ELSE IF chain[i].kind = "PARM_DECL" THEN "int"
            ELSE ""]]

CursorShapes(kinds) ==
    UNION {{Cursor(k, n, "") : n \in kinds[k]} : k \in DOMAIN kinds}

CursorChains ==
    {Typed(<<d>> \o ps) :
        d \in CursorShapes(DeclarationSpellings),
        ps \in UNION {[1..n -> CursorShapes(ParentSpellings)] :
                         n \in 0..MaxParents}}

WellNested(chain) ==
    /\ \A i \in 1..(Len(chain) - 1) :
          NestsIn(chain[i].kind, chain[i + 1].kind)
    /\ NestsInUnit(chain[Len(chain)].kind)

NameInit ==
    /\ cursor_chain \in {chain \in CursorChains : WellNested(chain)}
    /\ name_cache = None
    /\ name_returned = <<>>
    /\ name_pc = "ready"

\* a call through the cursor_cached wrapper: a cached value that is not
\* None is returned, otherwise the function runs and its value is cached
GetFullName ==
    /\ name_pc = "ready"
    /\ Len(name_returned) < MaxNameCalls
    /\ \E value \in {IF ~IsNone(name_cache) THEN name_cache
                     ELSE get_full_name(cursor_chain)} :
          /\ name_returned' = Append(name_returned, value)
          /\ name_cache' = value
    /\ UNCHANGED <<cursor_chain, name_pc>>
    /\ UNCHANGED notNameVars

NameNext == GetFullName

InitName ==
    /\ NameInit
    /\ DecIdle
    /\ CallIdle
    /\ TypeIdle
    /\ PathIdle
    /\ EnvIdle
    /\ WrapIdle

SpecName == InitName /\ [][NameNext]_vars

-----------------------------------------------------------------------------
(* Claims about get_full_name *)

\* a named class, struct, function or member declaration
NamedDeclaration(c) ==
    /\ c.kind \in {"STRUCT_DECL", "CLASS_DECL", "FUNCTION_DECL", "CXX_METHOD",
                   "FIELD_DECL", "CONSTRUCTOR"}
    /\ c.spelling # ""

\* the names of the named-scope ancestors of chain[1], outermost first,
\* the ancestors of other kinds left out
RECURSIVE NamedScopesAbove(_, _)
NamedScopesAbove(chain, i) ==
    IF i > Len(chain) THEN <<>>
    ELSE NamedScopesAbove(chain, i + 1) \o
         (IF chain[i].kind \in NAMED_SCOPE_KINDS THEN <<chain[i].spelling>>
          ELSE <<>>)

StatedFullName(chain) ==
    "::" \o JoinScope(NamedScopesAbove(chain, 2) \o <<chain[1].spelling>>)

\* C23: for a named class, struct, function or member declaration
\* get_full_name returns '::', the names of all its named-scope semantic
\* ancestors, outermost first, and its own name, joined by '::'; an
\* ancestor of another kind does not hide the named scopes above it.
C23_QualifiedByAllNamedScopes ==
    \A n \in DOMAIN name_returned :
        NamedDeclaration(cursor_chain[1]) =>
            name_returned[n] = Some(StatedFullName(cursor_chain))

-----------------------------------------------------------------------------
(* Environment.from_cursor over nested namespaces *)

(* A translation unit whose declarations all lie in the innermost of       *)
(* `namespaces` nested namespaces: the class M with a field and a method,  *)
(* the class N : M, and one annotating function whose AnnotatedItem        *)
(* targets M with up to MaxUnitInvocations different invocations.          *)

MaxNesting == 2

MaxUnitInvocations == 2

UnitInvocations ==
    { Invocation("arvida-class-stmt", <<"$this", "rdf:type", "ex:M">>),
      Invocation("arvida-class-include", <<"m.h">>),
      Invocation("arvida-object-semantic", <<"ex:M">>),
      Invocation("arvida-member-stmt", <<"getX", "$this", "ex:x", "$that">>),
      Invocation("arvida-field-semantic", <<"x", "ex:x">>) }

\* sequences in which no invocation occurs twice
UnitItems ==
    { <<ItemFor("M", invocations)>> :
        invocations \in
            {s \in UNION {[1..n -> UnitInvocations] :
                             n \in 1..MaxUnitInvocations} :
                \A i, j \in DOMAIN s : s[i] = s[j] => i = j} }

UnitInit ==
    /\ namespaces \in 0..MaxNesting
    /\ classes = << Class("M", <<>>, << Field("x"), Function("getX", 0) >>),
                    Class("N", <<"M">>, <<>>) >>
    /\ env_annotations \in UnitItems
    /\ hash_order = <<1, 2>>
    /\ NoMarkers
    /\ global_annotations = EmptyDict
    /\ annotated_classes = <<>>
    /\ annotated_base_classes = [c \in DOMAIN classes |-> {}]
    /\ annotated_sub_classes = [c \in DOMAIN classes |-> {}]
    /\ env_text = NoText
    /\ cls_attrs = [c \in DOMAIN classes |-> NoAttrs]
    /\ uid_visits = <<>>
    /\ visitor_visits = <<>>
    /\ raised = None
    /\ runs = 0
    /\ env_pc = "parsed"

\* from_child for a NAMESPACE cursor: Environment.from_cursor of the
\* namespace collects its declarations and runs build_index on an
\* Environment of its own, and extend hands the same Class objects and
\* AnnotatedItems to the enclosing Environment.  What build_index wrote on
\* the Class objects stays; the index of the inner Environment is dropped.
NamespaceFromCursor ==
    /\ env_pc = "parsed"
    /\ namespaces > 0
    /\ \E bound \in {BindItems([glob |-> EmptyDict,
                                cls |-> cls_annotations,
                                member |-> member_annotations,
                                annotated |-> SelectSeq(Indices(classes),
                                                        has_annotations)],
                               1)} :
       \E done \in {BindUidMethods(bound,
                        get_or(bound.glob, "uid-method", <<>>), 1)} :
       LET isAnnotated(c) == c \in Range(done.annotated)
       IN  /\ cls_annotations' = done.cls
           /\ member_annotations' = done.member
           /\ annotated_base_classes' =
                 [c \in DOMAIN classes |->
                     annotated_base_classes[c] \cup
                     {b \in KnownBases(c) : isAnnotated(b)}]
           /\ annotated_sub_classes' =
                 [b \in DOMAIN classes |->
                     annotated_sub_classes[b] \cup
                     {c \in DOMAIN classes :
                         b \in KnownBases(c) /\ isAnnotated(c)}]
    /\ namespaces' = namespaces - 1
    /\ UNCHANGED <<classes, env_annotations, hash_order, global_annotations,
                   annotated_classes, env_text, cls_attrs, uid_visits,
                   visitor_visits, raised, runs, env_pc>>
    /\ UNCHANGED notEnvVars

UnitNext ==
    \/ NamespaceFromCursor
    \/ BuildIndex

InitUnit ==
    /\ UnitInit
    /\ DecIdle
    /\ CallIdle
    /\ TypeIdle
    /\ PathIdle
    /\ NameIdle
    /\ WrapIdle

SpecUnit == InitUnit /\ [][UnitNext]_vars

-----------------------------------------------------------------------------
(* Claims about from_cursor *)

ClassTargeting ==
    {"arvida-object-semantic", "arvida-class-stmt", "arvida-class-include",
     "arvida-class-use-visitor"}

\* the class-scope invocations on c; arvida-object-semantic gives one
\* value per parameter, and it has one parameter here
BoundToClass(c) ==
    Cardinality({i \in DOMAIN InvocationsOn(c) :
        /\ InvocationsOn(c)[i].name # <<>>
        /\ InvocationsOn(c)[i].name[1] \in ClassTargeting})

\* C25: after Environment.from_cursor on the translation unit, every
\* class-scope or member-scope invocation that occurs once in the source
\* has contributed exactly one entry to the annotation list of its target,
\* also when the class and the annotating function lie in a namespace, at
\* any depth.
C25_BoundOncePerInvocation ==
    env_pc = "indexed" =>
        \A c \in DOMAIN classes :
            /\ Entries(cls_annotations[c]) = BoundToClass(c)
            /\ \A m \in DOMAIN classes[c].members :
                  Entries(member_annotations[c][m]) = BoundTo(c, m)

-----------------------------------------------------------------------------
(* CursorWrapper: qualifier stripping, value_type and full_name *)

\* a clang type: its kind, its qualifiers and the spelling of the
\* declaration get_declaration() finds (None: NO_DECL_FOUND)
Type(kind, c, v, r, decl) ==
    [kind |-> kind, const |-> c, volatile |-> v, restrict |-> r,
     decl |-> decl]

\* CursorWrapper.__init__ for the type at that level: the cached names
\* start as None
CursorWrapper(level, no_const, no_volatile, no_restrict) ==
    [level |-> level, no_const |-> no_const, no_volatile |-> no_volatile,
     no_restrict |-> no_restrict, cached_full_name |-> None,
     cached_full_specialized_name |-> None]

TypeOf(w) == wrapped_type[w.level]

is_dereferencable(w) ==
    TypeOf(w).kind \in {"LVALUEREFERENCE", "RVALUEREFERENCE", "POINTER"}

is_reference(w) == TypeOf(w).kind \in {"LVALUEREFERENCE", "RVALUEREFERENCE"}

is_pointer(w) == TypeOf(w).kind \in {"POINTER"}

is_const(w) == ~w.no_const /\ TypeOf(w).const

is_volatile(w) == ~w.no_volatile /\ TypeOf(w).volatile

is_restrict(w) == ~w.no_restrict /\ TypeOf(w).restrict

\* Each of these gives the wrapper returned: the receiver itself or a new
\* CursorWrapper(self.cursor, self.type, ...) with only the named flags set.
remove_const(w) ==
    IF ~is_const(w) THEN w ELSE CursorWrapper(w.level, TRUE, FALSE, FALSE)

remove_volatile(w) ==
    IF ~is_volatile(w) THEN w ELSE CursorWrapper(w.level, FALSE, TRUE, FALSE)

remove_restrict(w) ==
    IF ~is_restrict(w) THEN w ELSE CursorWrapper(w.level, FALSE, FALSE, TRUE)

\* "if not self.is_const() and not not self.is_volatile(): return self"
remove_cv(w) ==
    IF ~is_const(w) /\ ~~is_volatile(w) THEN w
    ELSE CursorWrapper(w.level, TRUE, TRUE, FALSE)

\* CursorWrapper(self.type.get_pointee())
deref(w) ==
    IF is_pointer(w) \/ is_reference(w)
    THEN Some(CursorWrapper(w.level + 1, FALSE, FALSE, FALSE))
    ELSE None

remove_reference(w) ==
    IF is_reference(w)
    THEN Some(CursorWrapper(w.level + 1, FALSE, FALSE, FALSE))
    ELSE None

value_type(w) ==
    IF is_reference(w) THEN remove_cv(The(remove_reference(w))) ELSE w

\* the cursor of the wrapper: the declaration of its type
DeclarationCursor(w) ==
    IF IsNone(TypeOf(w).decl) THEN <<Cursor("NO_DECL_FOUND", "", "")>>
    ELSE <<Cursor("STRUCT_DECL", The(TypeOf(w).decl), The(TypeOf(w).decl))>>

QualifierPrefix(w) ==
    (IF is_const(w) THEN "const " ELSE "") \o
    (IF is_restrict(w) THEN "restrict " ELSE "") \o
    (IF is_volatile(w) THEN "volatile " ELSE "")

Suffix(w) ==
    IF TypeOf(w).kind = "LVALUEREFERENCE" THEN "&"
    ELSE IF TypeOf(w).kind = "RVALUEREFERENCE" THEN "&&"
    ELSE "*"

\* The body of the full_name property for a wrapper whose cached name is
\* None: what is assigned to self._full_name.  The name of a wrapper of a
\* pointer or reference type is assigned first from the pointee, a new
\* wrapper; the else branch of the second if then assigns ''.
\* full_specialized_name runs the same steps with
\* get_full_specialized_name, which is get_full_name for a declaration
\* that is no template specialization.
RECURSIVE ComputedFullName(_)
ComputedFullName(w) ==
    LET prefix == QualifierPrefix(w)
        from_pointee ==
            IF DeclarationCursor(w)[1].kind = "NO_DECL_FOUND"
               /\ is_dereferencable(w)
            THEN Some(prefix \o ComputedFullName(The(deref(w))) \o " "
                             \o Suffix(w))
            ELSE None
    IN  IF IsNone(from_pointee)
        THEN prefix \o The(get_full_name(DeclarationCursor(w)))
        ELSE ""

(* Types: int or the struct S, const and volatile or not; a reference or   *)
(* a qualified pointer to one of these; a reference to such a pointer.     *)

MaxWrapCalls == 2

BaseTypes ==
    {Type(k[1], c, v, FALSE, k[2]) :
        k \in {<<"INT", None>>, <<"RECORD", Some("S")>>},
        c \in BOOLEAN, v \in BOOLEAN}

PointerTypes ==
    {Type("POINTER", c, v, r, None) :
        c \in BOOLEAN, v \in BOOLEAN, r \in BOOLEAN}

ReferenceTypes ==
    {Type(k, FALSE, FALSE, FALSE, None) :
        k \in {"LVALUEREFERENCE", "RVALUEREFERENCE"}}

WrappedTypes ==
    {<<b>> : b \in BaseTypes}
    \cup {<<p, b>> : p \in PointerTypes \cup ReferenceTypes, b \in BaseTypes}
    \cup {<<r, p, b>> : r \in ReferenceTypes, p \in PointerTypes,
                         b \in BaseTypes}

WrapInit ==
    /\ wrapped_type \in WrappedTypes
    /\ wrappers = <<CursorWrapper(1, FALSE, FALSE, FALSE)>>
    /\ wrap_log = <<>>
    /\ wrap_pc = "ready"

CanCall == wrap_pc = "ready" /\ Len(wrap_log) < MaxWrapCalls

\* the call op on wrappers[i] returned out: the receiver itself, or a new
\* object that joins the wrappers
Returned(op, i, out) ==
    /\ wrappers' = IF out = wrappers[i] THEN wrappers
                   ELSE Append(wrappers, out)
    /\ wrap_log' = Append(wrap_log,
                       [op |-> op, on |-> i,
                        out |-> IF out = wrappers[i] THEN i
                                ELSE Len(wrappers) + 1,
                        receiver |-> wrappers[i],
                        value |-> ""])
    /\ UNCHANGED <<wrapped_type, wrap_pc>>
    /\ UNCHANGED notWrapVars

RemoveConst ==
    /\ CanCall
    /\ \E i \in DOMAIN wrappers :
          Returned("remove_const", i, remove_const(wrappers[i]))

RemoveVolatile ==
    /\ CanCall
    /\ \E i \in DOMAIN wrappers :
          Returned("remove_volatile", i, remove_volatile(wrappers[i]))

RemoveRestrict ==
    /\ CanCall
    /\ \E i \in DOMAIN wrappers :
          Returned("remove_restrict", i, remove_restrict(wrappers[i]))

RemoveCv ==
    /\ CanCall
    /\ \E i \in DOMAIN wrappers :
          Returned("remove_cv", i, remove_cv(wrappers[i]))

ValueType ==
    /\ CanCall
    /\ \E i \in DOMAIN wrappers :
          Returned("value_type", i, value_type(wrappers[i]))

\* the property returns the cached name, computing it when it is None
FullName ==
    /\ CanCall
    /\ \E i \in DOMAIN wrappers :
       \E name \in {IF ~IsNone(wrappers[i].cached_full_name)
                    THEN The(wrappers[i].cached_full_name)
                    ELSE ComputedFullName(wrappers[i])} :
          /\ wrappers' = [wrappers EXCEPT
                             ![i].cached_full_name = Some(name)]
          /\ wrap_log' = Append(wrap_log,
                             [op |-> "full_name", on |-> i, out |-> i,
                              receiver |-> wrappers[i], value |-> name])
    /\ UNCHANGED <<wrapped_type, wrap_pc>>
    /\ UNCHANGED notWrapVars

FullSpecializedName ==
    /\ CanCall
    /\ \E i \in DOMAIN wrappers :
       \E name \in {IF ~IsNone(wrappers[i].cached_full_specialized_name)
                    THEN The(wrappers[i].cached_full_specialized_name)
                    ELSE ComputedFullName(wrappers[i])} :
          /\ wrappers' = [wrappers EXCEPT
                             ![i].cached_full_specialized_name = Some(name)]
          /\ wrap_log' = Append(wrap_log,
                             [op |-> "full_specialized_name", on |-> i,
                              out |-> i, receiver |-> wrappers[i],
                              value |-> name])
    /\ UNCHANGED <<wrapped_type, wrap_pc>>
    /\ UNCHANGED notWrapVars

WrapNext ==
    \/ RemoveConst
    \/ RemoveVolatile
    \/ RemoveRestrict
    \/ RemoveCv
    \/ ValueType
    \/ FullName
    \/ FullSpecializedName

InitWrap ==
    /\ WrapInit
    /\ DecIdle
    /\ CallIdle
    /\ TypeIdle
    /\ PathIdle
    /\ EnvIdle
    /\ NameIdle

SpecWrap == InitWrap /\ [][WrapNext]_vars

-----------------------------------------------------------------------------
(* Claims about CursorWrapper *)

Calls(op) == {n \in DOMAIN wrap_log : wrap_log[n].op = op}

\* the wrapper a call returned, and the one it was made on
Out(n) == wrappers[wrap_log[n].out]
On(n) == wrap_log[n].receiver

\* C24: value_type of a wrapper of reference type returns a wrapper for the
\* referenced type that reports neither is_const nor is_volatile, whether
\* the referenced type is const, volatile, both or neither; the receiver is
\* as it was.
C24_ValueTypeUnqualified ==
    \A n \in Calls("value_type") :
        is_reference(On(n)) =>
            /\ Out(n).level = On(n).level + 1
            /\ ~is_const(Out(n))
            /\ ~is_volatile(Out(n))
            /\ wrappers[wrap_log[n].on] = On(n)

RemoveCalls ==
    Calls("remove_const") \cup Calls("remove_volatile")
    \cup Calls("remove_restrict")

\* call m was made on the wrapper that call n returned
Follows(m, n) == n < m /\ wrap_log[m].on = wrap_log[n].out

\* C29: w.remove_volatile().remove_const() and
\* w.remove_const().remove_volatile() report neither is_const nor
\* is_volatile, and a qualifier that remove_const, remove_volatile or
\* remove_restrict removed is not reported after a further remove_* call
\* on the result.
C29_StrippingCumulative ==
    \A n, m \in RemoveCalls :
        Follows(m, n) =>
            /\ wrap_log[n].op = "remove_const" => ~is_const(Out(m))
            /\ wrap_log[n].op = "remove_volatile" => ~is_volatile(Out(m))
            /\ wrap_log[n].op = "remove_restrict" => ~is_restrict(Out(m))
            /\ {wrap_log[n].op, wrap_log[m].op}
                   = {"remove_const", "remove_volatile"} =>
                  ~is_const(Out(m)) /\ ~is_volatile(Out(m))

\* C30: full_name and full_specialized_name of a wrapper of pointer or
\* reference type whose type has no declaration are the qualifier prefix,
\* the name of the pointee wrapper, a space and '*', '&' or '&&'; that
\* value is returned and cached on the wrapper.
C30_NameFromPointee ==
    \A n \in Calls("full_name") \cup Calls("full_specialized_name") :
        is_dereferencable(On(n)) /\ IsNone(TypeOf(On(n)).decl) =>
            LET stated == QualifierPrefix(On(n))
                          \o ComputedFullName(The(deref(On(n))))
                          \o " " \o Suffix(On(n))
            IN  /\ wrap_log[n].value = stated
                /\ wrap_log[n].op = "full_name" =>
                      Out(n).cached_full_name = Some(stated)
                /\ wrap_log[n].op = "full_specialized_name" =>
                      Out(n).cached_full_specialized_name = Some(stated)

-----------------------------------------------------------------------------
(* Claims about the classes the visitor flag reaches *)

\* an annotated base/sub-class edge: one class is a direct base of the
\* other and both are annotated
Linked(x, y) ==
    /\ Annotated(x)
    /\ Annotated(y)
    /\ x \in DirectBases(y) \/ y \in DirectBases(x)

\* a chain of at most depth such edges, taken in either direction
RECURSIVE Connected(_, _, _)
Connected(x, y, depth) ==
    \/ x = y
    \/ /\ depth > 0
       /\ \E z \in DOMAIN classes :
             Linked(x, z) /\ Connected(z, y, depth - 1)

ConnectedToMarker(c) ==
    \E m \in DOMAIN classes :
        /\ Annotated(m)
        /\ MarksVisitor(m)
        /\ Connected(c, m, Len(classes))

\* C26: after process_environment an annotated class has use_visitor =
\* True exactly when a chain of annotated base/sub-class edges, taken in
\* either direction, connects it to an annotated class that carries a
\* use-visitor annotation, siblings and cousins of that class included;
\* every other annotated class has use_visitor = False, in whatever order
\* the sets of classes are iterated.
C26_VisitorFlagIsComponent ==
    Processed =>
        \A c \in DOMAIN classes : Annotated(c) =>
            cls_attrs[c].use_visitor = Set(ConnectedToMarker(c))

\* B and C both derive from the annotated A and only B marks use-visitor:
\* its sibling C has use_visitor = True through A, and D, annotated and
\* related to none of them, has use_visitor = False.
C26_Witness ==
    /\ Processed
    /\ runs = 1
    /\ Len(classes) = 4
    /\ DirectBases(2) = {1}
    /\ DirectBases(3) = {1}
    /\ DirectBases(4) = {}
    /\ \A c \in DOMAIN classes : Annotated(c) /\ (MarksVisitor(c) <=> c = 2)
    /\ cls_attrs[1].use_visitor = Set(TRUE)
    /\ cls_attrs[3].use_visitor = Set(TRUE)
    /\ cls_attrs[4].use_visitor = Set(FALSE)

-----------------------------------------------------------------------------
(* Claims about attributes met while a parameter is open *)

\* the child the next step of the loop visits
NextVisited == visit_pos + 1

\* the next child is an annotate attribute that is neither an end marker
\* nor a value marker, and a parameter is open
IgnorableNext ==
    /\ ~IsNone(current_param_name)
    /\ IsAnnotate(NextVisited)
    /\ ~IsEndMarker(NextVisited)
    /\ ~IsValueMarker(NextVisited)

DecoderStateKept ==
    /\ result' = result
    /\ current_param_name' = current_param_name
    /\ current_param_value' = current_param_value

\* C27: while a parameter is open, an annotate attribute that is neither an
\* end marker nor a value marker (a flag attribute or another begin marker)
\* adds no entry to the annotation map and changes neither the name nor the
\* accumulated values of the open parameter; a child that is no annotate
\* attribute never changes the map, the name or the values.
C27_IgnoredWhileOpen ==
    [][(InLoop /\ (IgnorableNext \/ ~IsAnnotate(NextVisited)))
           => DecoderStateKept]_vars

\* a flag attribute and a further begin marker have both been visited while
\* the parameter opened by the first begin marker was open, and a child that
\* is no annotate attribute has been visited as well
C27_Witness ==
    /\ dec_pc = "done"
    /\ Len(children) = 4
    /\ begun = <<1>>
    /\ \A i \in 2..4 : ~IsEndMarker(i) /\ ~IsValueMarker(i)
    /\ \E i \in 2..4 : IsAnnotate(i) /\ Visited(i).displayname = "k=v=w"
    /\ \E i \in 2..4 : IsBeginMarker(i)
    /\ \E i \in 2..4 : ~IsAnnotate(i)
    /\ DOMAIN result = {BeginName(Visited(1).displayname)}
    /\ result[BeginName(Visited(1).displayname)] = <<TupleEntry(<<>>)>>

-----------------------------------------------------------------------------
(* Claims about ties in the order of the triples *)

\* the kind of a node, an IRI and a prefixed name counting as one kind
NodeKind(v) ==
    CASE v.kind = "value" /\ v.meta_var = "$this" -> "this"
      [] v.kind = "value" /\ v.meta_var = "$that" -> "that"
      [] v.kind = "value" /\ v.meta_var \in
             {"$that.foreach", "$that.element", "$that.item"} -> "element"
      [] v.kind \in {"iri", "prefixed_name"} -> "name"
      [] v.kind = "blank" -> "blank"
      [] OTHER -> "other"

NodeKinds == {"this", "that", "element", "name", "blank", "other"}

KindCount(t, kind) == Cardinality({i \in 1..3 : NodeKind(t[i]) = kind})

\* the two triples have the same multiset of node kinds
SameKinds(t, u) == \A kind \in NodeKinds : KindCount(t, kind) = KindCount(u, kind)

HasElement(t) == KindCount(t, "element") > 0

\* the triples of the list that have the node kinds of t, in their order
WithKindsOf(triples, t) == SelectSeq(triples, LAMBDA u : SameKinds(t, u))

IsThatPThis(t) ==
    /\ NodeKind(t[1]) = "that"
    /\ NodeKind(t[2]) = "name"
    /\ NodeKind(t[3]) = "this"

\* C28: the sort of process_triples is stable and does not look at the
\* positions of the nodes: two triples of a container compare equal exactly
\* when they have the same multiset of node kinds (an IRI and a prefixed
\* name being one kind), and the triples of one multiset stand in
\* member_triples and in member_element_triples in the order in which the
\* container received them; so [this, p, that] and [that, p, this] tie and
\* keep their order.
C28_TiesKeepDeclarationOrder ==
    Processed =>
        \A c \in DOMAIN classes : Completed(c) =>
            \A k \in DOMAIN The(cls_attrs[c].mtcs) :
                LET mtc == The(cls_attrs[c].mtcs)[k]
                IN  \A i \in DOMAIN mtc.triples :
                        LET t == mtc.triples[i]
                            declared == WithKindsOf(mtc.triples, t)
                        IN  /\ \A j \in DOMAIN mtc.triples :
                                  cmp_triple(t, mtc.triples[j]) = 0
                                      <=> SameKinds(t, mtc.triples[j])
                            /\ WithKindsOf(mtc.member_triples, t) =
                                  IF HasElement(t) THEN <<>> ELSE declared
                            /\ WithKindsOf(mtc.member_element_triples, t) =
                                  IF HasElement(t) THEN declared ELSE <<>>

\* A container that received [that, ex:p, this] before [this, ex:hasName,
\* that]: the two tie, and member_triples holds them in this order.
C28_Witness ==
    /\ Processed
    /\ \E c \in DOMAIN classes :
          /\ Completed(c)
          /\ \E k \in DOMAIN The(cls_attrs[c].mtcs) :
                LET mtc == The(cls_attrs[c].mtcs)[k]
                IN  /\ Len(mtc.triples) = 2
                    /\ IsThatPThis(mtc.triples[1])
                    /\ IsThisHasNameThat(mtc.triples[2])
                    /\ mtc.triples[1] # mtc.triples[2]
                    /\ cmp_triple(mtc.triples[1], mtc.triples[2]) = 0
                    /\ mtc.member_triples = mtc.triples

=============================================================================
